---- MODULE Spec2Model ----
(***************************************************************************)
(* Model of the multilsp protocol client: one language-server session      *)
(* (BaseLanguageServerManager and its per-language subclasses), its reader *)
(* and writer threads, the caller threads that issue requests, the backend *)
(* process at the other end of the pipes, and the text-edit application of *)
(* run_formatter, the bytes of the frames on the pipes, and the            *)
(* MultiLanguageServer that routes operations to the managers.             *)
(*                                                                         *)
(* Request ids are the decimal strings str(1), str(2), ...; the model      *)
(* writes them as the numbers themselves (str is injective on them) and    *)
(* uses 0 for "the message has no id key".                                 *)
(***************************************************************************)
EXTENDS Integers, Sequences, FiniteSets, TLC

VARIABLES
    \* ---- fields of the session object (base.py __init__) ----
    server_process,     \* 0 = None, otherwise the number of the launched process
    running,            \* self.running
    next_request_id,    \* self.next_request_id
    request_callbacks,  \* self.request_callbacks: id -> callback
    response_queue,     \* self.response_queue (FIFO)
    write_queue,        \* self.write_queue (FIFO)
    reader_thread,      \* self.reader_thread: 0 = None, else the thread's number
    writer_thread,      \* self.writer_thread
    \* ---- the backend processes launched so far, and their pipes ----
    poll,               \* poll[p]: "alive" (poll() is None) or "exited"
    stdin,              \* stdin[p]: the messages written to process p, in order
    stdout,             \* stdout[p]: the messages p has written that no reader has read
    answered,           \* answered[p]: ids of the requests p has answered
    \* ---- reader and writer threads, one pair per start() ----
    readerPc,           \* readerPc[g]: "check" (loop condition), "read" (in readline), "dead"
    readerProc,         \* readerProc[g]: the process whose stdout the readline is on
    writerPc,           \* writerPc[g]: "check", "get" (in write_queue.get), "dead"
    \* ---- caller threads ----
    pc,                 \* pc[t]: position of caller t
    op,                 \* op[t]: the operation t is in
    request_id,         \* request_id[t]: local of _send_request_sync/_async (0: none)
    loaded,             \* loaded[t]: the value of next_request_id read by "+= 1"
    ret,                \* ret[t]: the response _send_request_sync returned
    stoppedAtCall,      \* stoppedAtCall[t]: the session was Stopped when t called stop()
    calls,              \* calls[t]: number of operations t has called
    \* ---- history ----
    allocated,          \* the request ids allocated so far
    timedOut,           \* ids of the sync requests that timed out
    asyncCalls,         \* asyncCalls[k]: the id under which callback k was registered
    cbCalls,            \* the callback invocations: [cb, id], in order
    dispatched,         \* ids of the responses to async requests the reader has processed
    \* ---- run_formatter (python_server.py / javascript_server.py) ----
    fpc,                \* position inside run_formatter
    content,            \* text read from the file
    response,           \* what _send_request_sync returned to run_formatter
    new_content,        \* text under construction
    fmtPath,            \* the path run_formatter took
    fallback,           \* outcome of the fallback formatter subprocess
    returned,           \* value returned by run_formatter
    \* ---- the writer loop, statement by statement (base.py 178-187) ----
    message,            \* message[g]: the message writer g took and has not written yet
    \* ---- the reader loop on the bytes of the pipe (base.py 140-158) ----
    language,           \* self.language of the manager whose reader this is
    sent,               \* the frames the peer wrote: [msg, style, blanks]
    wire,               \* the bytes of the pipe not read yet
    rpc,                \* position of the reader inside one iteration
    content_length,     \* content_length parsed from the header line
    read_content,       \* content: what stdout.read(content_length) returned
    shortRead,          \* a read has returned fewer bytes than asked for and than the pipe was to carry
    decoded,            \* the messages handed to _process_lsp_message, in order
    logged,             \* the log records of _handle_notification: [type, level]
    \* ---- MultiLanguageServer (service.py) ----
    managers,           \* managers[b]: the fields of the session of backend b
    acting,             \* the backend whose session the last operation was on
    svc,                \* the last call of a routed service operation and its outcome
    \* ---- the file system ----
    isfile,             \* os.path.isfile(file_path) of the path run_linter / run_formatter get
    \* ---- get_references (base.py 467-514) ----
    refResponse,        \* response: what _send_request_sync returned to get_references
    references          \* what get_references returned, or the exception it raised

fieldVars == <<server_process, running, next_request_id, request_callbacks,
               response_queue, write_queue, reader_thread, writer_thread>>
procVars == <<poll, stdin, stdout, answered>>
threadVars == <<readerPc, readerProc, writerPc>>
callerVars == <<pc, op, request_id, loaded, ret, stoppedAtCall, calls>>
histVars == <<allocated, timedOut, asyncCalls, cbCalls, dispatched>>
sessVars == <<fieldVars, procVars, threadVars, callerVars, histVars>>
fmtVars == <<fpc, content, response, new_content, fmtPath, fallback, returned>>
wireVars == <<language, sent, wire, rpc, content_length, read_content, shortRead,
              decoded, logged>>
serviceVars == <<managers, acting, svc>>
refVars == <<refResponse, references>>
extVars == <<message, wireVars, serviceVars, isfile, refVars>>
restVars == <<fmtVars, extVars>>
vars == <<sessVars, fmtVars, extVars>>

(***************************************************************************)
(* Bounds of the model.                                                    *)
(***************************************************************************)
MaxTextLen == 2
MaxEdits == 2

NL == "\n"
Alphabet == {"a", NL}
NewTexts == {<<>>, <<"x", NL>>}

RECURSIVE SeqsUpTo(_, _)
SeqsUpTo(S, n) ==
    IF n = 0 THEN {<<>>}
    ELSE LET shorter == SeqsUpTo(S, n - 1)
         IN  shorter \cup {Append(s, x) : s \in {t \in shorter : Len(t) = n - 1}, x \in S}

Texts == SeqsUpTo(Alphabet, MaxTextLen)

Min(a, b) == IF a < b THEN a ELSE b

(***************************************************************************)
(* Messages. id = 0: no "id" key; method = "": no "method" key;            *)
(* body: "result" / "error" when the message has that key, else "none".    *)
(***************************************************************************)
Request(id, method) == [id |-> id, method |-> method, body |-> "none"]
Notification(method) == [id |-> 0, method |-> method, body |-> "none"]

(***************************************************************************)
(* str.splitlines(True): the lines of a text with their terminators kept.  *)
(* The alphabet has "\n" as its only line boundary.                        *)
(***************************************************************************)
RECURSIVE SplitLines(_)
SplitLines(text) ==
    IF text = <<>> THEN <<>>
    ELSE LET nls == {i \in 1..Len(text) : text[i] = NL}
         IN  IF nls = {} THEN <<text>>
             ELSE LET k == CHOOSE i \in nls : \A j \in nls : i <= j
                  IN  <<SubSeq(text, 1, k)>> \o SplitLines(SubSeq(text, k + 1, Len(text)))

RECURSIVE SumLens(_, _)
SumLens(lines, n) ==
    IF n <= 0 THEN 0 ELSE Len(lines[n]) + SumLens(lines, n - 1)

\* sum(len(lines[i]) for i in range(pos.line)) + pos.character;
\* lines[i] raises IndexError when pos.line exceeds the number of lines.
OffsetRaises(lines, pos) == pos.line > Len(lines)

\* The offset without the lengths of the preceding lines.
OffsetInLine(lines, pos) == pos.character

Offset(lines, pos) == SumLens(lines, pos.line) + pos.character

\* Python slices s[:k] and s[k:] for k >= 0 (an index past the end is clamped).
SliceTo(s, k) == SubSeq(s, 1, Min(k, Len(s)))
SliceFrom(s, k) == SubSeq(s, Min(k, Len(s)) + 1, Len(s))

\* One iteration of the loop over the edits (python_server.py 279-291).
EditRaises(text, edit) ==
    LET lines == SplitLines(text)
    IN  OffsetRaises(lines, edit.start) \/ OffsetRaises(lines, edit.end)

ApplyEdit(text, edit) ==
    LET lines == SplitLines(text)
        start_offset == Offset(lines, edit.start)
        end_offset == Offset(lines, edit.end)
    IN  SliceTo(text, start_offset) \o edit.newText \o SliceFrom(text, end_offset)

\* The loop over an edit list, in the order given: the text after the last
\* edit, or the text reached when an iteration raises.
RECURSIVE ApplyInOrder(_, _)
ApplyInOrder(text, edits) ==
    IF edits = <<>> THEN [raised |-> FALSE, text |-> text]
    ELSE IF EditRaises(text, Head(edits)) THEN [raised |-> TRUE, text |-> text]
    ELSE ApplyInOrder(ApplyEdit(text, Head(edits)), Tail(edits))

\* sorted(result, key=lambda e: -1 * e["range"]["start"]["line"]): a stable sort
\* on the start line alone, descending.
SortKey(edit) == -1 * edit.start.line

RECURSIVE InsertSorted(_, _)
InsertSorted(sorted, edit) ==
    IF sorted = <<>> THEN <<edit>>
    ELSE IF SortKey(Head(sorted)) <= SortKey(edit)
         THEN <<Head(sorted)>> \o InsertSorted(Tail(sorted), edit)
         ELSE <<edit>> \o sorted

RECURSIVE SortedEdits(_)
SortedEdits(edits) ==
    IF edits = <<>> THEN <<>>
    ELSE InsertSorted(SortedEdits(SubSeq(edits, 1, Len(edits) - 1)), edits[Len(edits)])

(***************************************************************************)
(* The inputs of the edit application: positions of a text, and the edit   *)
(* lists a backend may answer textDocument/formatting with.                *)
(***************************************************************************)
Pos(l, c) == [line |-> l, character |-> c]

\* Positions the backend may name: every line/character of the text, the end
\* of file, and one line past it (for which lines[i] raises).
Positions(text) ==
    LET lines == SplitLines(text)
        chars(l) == IF lines[l][Len(lines[l])] = NL THEN Len(lines[l]) - 1 ELSE Len(lines[l])
    IN  {p \in {Pos(l - 1, c) : l \in 1..Len(lines), c \in 0..MaxTextLen} :
             p.character <= chars(p.line + 1)}
          \cup {Pos(Len(lines), 0), Pos(Len(lines) + 1, 0)}

PosLeq(p, q) == p.line < q.line \/ (p.line = q.line /\ p.character <= q.character)
PosLess(p, q) == PosLeq(p, q) /\ p # q

Edits(text) ==
    LET ps == Positions(text)
        ranges == {r \in ps \X ps : PosLeq(r[1], r[2])}
    IN  {[start |-> r[1], end |-> r[2], newText |-> x] : r \in ranges, x \in NewTexts}

\* Two edits whose half-open ranges share no character.
Disjoint(e1, e2) == PosLeq(e1.end, e2.start) \/ PosLeq(e2.end, e1.start)

\* The edit lists of a formatting response: up to MaxEdits edits with pairwise
\* disjoint ranges, in any order.
RECURSIVE EditListsUpTo(_, _)
EditListsUpTo(text, n) ==
    IF n = 0 THEN {<<>>}
    ELSE LET shorter == EditListsUpTo(text, n - 1)
             longest == {s \in shorter : Len(s) = n - 1}
             ext == {se \in longest \X Edits(text) :
                         \A i \in 1..Len(se[1]) : Disjoint(se[1][i], se[2])}
         IN  shorter \cup {Append(se[1], se[2]) : se \in ext}

EditLists(text) == EditListsUpTo(text, MaxEdits)

\* python_server.py 276-291: the edits sorted, then applied one after another.
ApplyEdits(text, edits) == ApplyInOrder(text, SortedEdits(edits))

\* stdout of the fallback formatter (black -, prettier) when it exits 0.
Formatted == <<"f", NL>>
FallbackOutputs(text) == {text, Formatted}

NoText == <<"-">>
NoResponse == [kind |-> "none", edits |-> <<>>]
NoFallback == [outcome |-> "none", stdout |-> NoText]

\* What _send_request_sync hands to run_formatter: {} after a timeout, or a
\* queued response, whose result is null, a list of edits, or (the response to
\* another request) something that is no list of edits.
Responses(text) ==
    {[kind |-> k, edits |-> <<>>] : k \in {"timeout", "null", "stale"}}
      \cup {[kind |-> "list", edits |-> es] : es \in EditLists(text)}

\* The test without "if result:".
HasResultAlways(resp) == TRUE

\* python_server.py 272-274: response and "result" in response, then "if result:".
\* A non-empty dict or list is truthy; {}, None and [] are not.
HasResult(resp) ==
    \/ resp.kind = "stale"
    \/ resp.kind = "list" /\ resp.edits # <<>>

(***************************************************************************)
(* run_formatter (python_server.py 222-328, javascript_server.py 213-328). *)
(* The session is that of a started backend; the response that             *)
(* _send_request_sync hands back is drawn from the responses the reader     *)
(* can have queued.                                                        *)
(***************************************************************************)
\* 231-270: the file check, "ensure running" (the backend runs), the read,
\* didOpen, and the request of _send_request_sync (base.py 320-331).
FmtCall ==
    /\ fpc = "idle"
    /\ \E is_file \in BOOLEAN :
          IF ~is_file
          THEN /\ fpc' = "raised"
               /\ UNCHANGED <<next_request_id, write_queue>>
          ELSE /\ fpc' = "request"
               /\ next_request_id' = next_request_id + 1
               /\ write_queue' = write_queue \o
                      <<Notification("textDocument/didOpen"),
                        Request(next_request_id, "textDocument/formatting")>>
    /\ allocated' = IF fpc' = "request" THEN allocated \cup {next_request_id} ELSE allocated
    /\ UNCHANGED <<server_process, running, request_callbacks, response_queue,
                   reader_thread, writer_thread>>
    /\ UNCHANGED <<procVars, threadVars, callerVars, timedOut, asyncCalls, cbCalls, dispatched>>
    /\ UNCHANGED <<content, response, new_content, fmtPath, fallback, returned>>
    /\ UNCHANGED extVars

\* base.py 335-340 and python_server.py 272-274: the wait ends, and the
\* response either carries a truthy result or sends run_formatter to the fallback.
FmtResponse ==
    /\ fpc = "request"
    /\ \E resp \in Responses(content) :
          /\ response' = resp
          /\ fpc' = IF HasResult(resp) THEN "edits" ELSE "fallback"
    /\ UNCHANGED <<sessVars, content, new_content, fmtPath, fallback, returned>>
    /\ UNCHANGED extVars

\* 276-300: the edits applied to a copy of content; then didClose and the
\* return of new_content. An exception (iterating a result that is no list of
\* edits, an IndexError of lines[i]) is caught at 305 and leads to the fallback.
FmtApplyEdits ==
    /\ fpc = "edits"
    /\ IF response.kind = "stale"
       THEN /\ new_content' = content
            /\ fpc' = "fallback"
            /\ fmtPath' = "exception"
            /\ UNCHANGED <<write_queue, returned>>
       ELSE LET applied == ApplyEdits(content, response.edits)
            IN  /\ new_content' = applied.text
                /\ IF applied.raised
                   THEN /\ fpc' = "fallback"
                        /\ fmtPath' = "exception"
                        /\ UNCHANGED <<write_queue, returned>>
                   ELSE /\ fpc' = "returned"
                        /\ fmtPath' = "edits"
                        /\ write_queue' =
                               Append(write_queue, Notification("textDocument/didClose"))
                        /\ returned' = applied.text
    /\ UNCHANGED <<server_process, running, next_request_id, request_callbacks,
                   response_queue, reader_thread, writer_thread>>
    /\ UNCHANGED <<procVars, threadVars, callerVars, histVars>>
    /\ UNCHANGED <<content, response, fallback>>
    /\ UNCHANGED extVars

\* A fallback that hands back the text of the edit application.
FallbackReturnPartial(outcome, output) ==
    IF outcome = "ok" THEN output ELSE new_content

\* What run_formatter returns after the fallback subprocess (308-328).
FallbackReturn(outcome, output) ==
    IF outcome = "ok" THEN output ELSE content

\* 308-328: the fallback formatter exits 0, exits non-zero, or subprocess.run raises.
FmtFallback ==
    /\ fpc = "fallback"
    /\ \E outcome \in {"ok", "nonzero", "exception"}, output \in FallbackOutputs(content) :
          /\ fallback' = [outcome |-> outcome,
                          stdout |-> IF outcome = "ok" THEN output ELSE NoText]
          /\ returned' = FallbackReturn(outcome, output)
    /\ fpc' = "returned"
    /\ fmtPath' = IF fmtPath = "exception" THEN "exception" ELSE "noedits"
    /\ UNCHANGED <<sessVars, content, response, new_content>>
    /\ UNCHANGED extVars

Threads == {"main", "worker"}
Empty == [id |-> 0, method |-> "", body |-> "none"]

\* The parts of the model that a specification does not exercise stay as
\* they are here: no writer holds a message, no byte is on the pipe, no
\* service exists.
InitWriterIdle == message = <<>>

\* The path an operation is called with names an existing file.
InitDocIdle == isfile = TRUE

\* get_references has not been called.
NoReferences == [state |-> "none", value |-> <<>>]

InitRefsIdle ==
    /\ refResponse = [kind |-> "timeout", locations |-> <<>>]
    /\ references = NoReferences

InitWireIdle ==
    /\ language = "none"
    /\ sent = <<>>
    /\ wire = <<>>
    /\ rpc = "idle"
    /\ content_length = 0
    /\ read_content = <<>>
    /\ shortRead = FALSE
    /\ decoded = <<>>
    /\ logged = <<>>

InitServiceIdle ==
    /\ managers = <<>>
    /\ acting = "none"
    /\ svc = [op |-> "none", ext |-> "", outcome |-> "none", attempted |-> {}]

InitCallers ==
    /\ pc = [t \in Threads |-> "idle"]
    /\ op = [t \in Threads |-> "none"]
    /\ request_id = [t \in Threads |-> 0]
    /\ loaded = [t \in Threads |-> 0]
    /\ ret = [t \in Threads |-> Empty]
    /\ stoppedAtCall = [t \in Threads |-> FALSE]
    /\ calls = [t \in Threads |-> 0]

\* The session after start() has returned from a successful handshake and the
\* writer has drained the queue: the state run_formatter finds when the
\* backend runs.
InitReady ==
    /\ server_process = 1
    /\ running = TRUE
    /\ next_request_id = 2
    /\ request_callbacks = <<>>
    /\ response_queue = <<>>
    /\ write_queue = <<>>
    /\ reader_thread = 1
    /\ writer_thread = 1
    /\ poll = <<"alive">>
    /\ stdin = << <<Request(1, "initialize"), Notification("initialized"),
                    Notification("workspace/didChangeConfiguration"),
                    Notification("workspace/didChangeConfiguration")>> >>
    /\ stdout = << <<>> >>
    /\ answered = <<{1}>>
    /\ readerPc = <<"read">>
    /\ readerProc = <<1>>
    /\ writerPc = <<"get">>
    /\ InitCallers
    /\ allocated = {1}
    /\ timedOut = {}
    /\ asyncCalls = <<>>
    /\ cbCalls = <<>>
    /\ dispatched = {}

InitFmt ==
    /\ InitReady
    /\ fpc = "idle"
    /\ content \in Texts
    /\ response = NoResponse
    /\ new_content = NoText
    /\ fmtPath = "none"
    /\ fallback = NoFallback
    /\ returned = NoText
    /\ InitWriterIdle
    /\ InitDocIdle
    /\ InitRefsIdle
    /\ InitWireIdle
    /\ InitServiceIdle

NextFmt ==
    \/ FmtCall
    \/ FmtResponse
    \/ FmtApplyEdits
    \/ FmtFallback

SpecFmt == InitFmt /\ [][NextFmt]_vars

(***************************************************************************)
(* The session: caller threads, reader and writer threads, the backend.    *)
(***************************************************************************)
MaxId == 2
MaxProcs == 2
MaxCalls == 1
MaxOps == 2

Response(id, body) == [id |-> id, method |-> "", body |-> body]

MethodOf(o) ==
    CASE o = "start" -> "initialize"
      [] o = "stop" -> "shutdown"
      [] o = "sync" -> "textDocument/definition"
      [] OTHER -> "textDocument/references"

\* A session that never reports a running backend.
NeverRunning == FALSE

\* python_server.py 121-127
is_running == server_process # 0 /\ poll[server_process] = "alive"

\* base.py 140 and 175: self.running and self.server_process.poll() is None.
\* With server_process None the attribute access raises and the thread ends.
LoopCondition == running /\ server_process # 0 /\ poll[server_process] = "alive"

HasResultKey(msg) == msg # Empty /\ msg.body = "result"

Put(queue, msg) == Append(queue, msg)

\* ---- _send_request_sync and _send_request_async, statement by statement,
\* ---- as several caller threads interleave them --------------------------
CallRequest(t, o) ==
    /\ pc[t] = "idle"
    /\ calls[t] < MaxCalls
    /\ calls' = [calls EXCEPT ![t] = calls[t] + 1]
    /\ op' = [op EXCEPT ![t] = o]
    /\ pc' = [pc EXCEPT ![t] = "read_id"]
    /\ UNCHANGED <<fieldVars, procVars, threadVars, histVars, restVars>>
    /\ UNCHANGED <<request_id, loaded, ret, stoppedAtCall>>

\* base.py 320 / 350: request_id = str(self.next_request_id)
ReadId(t) ==
    /\ pc[t] = "read_id"
    /\ request_id' = [request_id EXCEPT ![t] = next_request_id]
    /\ allocated' = allocated \cup {next_request_id}
    /\ pc' = [pc EXCEPT ![t] = "inc_load"]
    /\ UNCHANGED <<fieldVars, procVars, threadVars, restVars>>
    /\ UNCHANGED <<op, loaded, ret, stoppedAtCall, calls>>
    /\ UNCHANGED <<timedOut, asyncCalls, cbCalls, dispatched>>

\* base.py 321 / 351: self.next_request_id += 1 reads the attribute ...
IncLoad(t) ==
    /\ pc[t] = "inc_load"
    /\ loaded' = [loaded EXCEPT ![t] = next_request_id]
    /\ pc' = [pc EXCEPT ![t] = "inc_store"]
    /\ UNCHANGED <<fieldVars, procVars, threadVars, histVars, restVars>>
    /\ UNCHANGED <<op, request_id, ret, stoppedAtCall, calls>>

\* ... and stores the sum.
IncStore(t) ==
    /\ pc[t] = "inc_store"
    /\ next_request_id' = loaded[t] + 1
    /\ pc' = [pc EXCEPT ![t] = IF op[t] = "async" THEN "register" ELSE "put"]
    /\ UNCHANGED <<server_process, running, request_callbacks, response_queue,
                   write_queue, reader_thread, writer_thread>>
    /\ UNCHANGED <<procVars, threadVars, histVars, restVars>>
    /\ UNCHANGED <<op, request_id, loaded, ret, stoppedAtCall, calls>>

\* base.py 354: self.request_callbacks[request_id] = callback
Register(t) ==
    /\ pc[t] = "register"
    /\ asyncCalls' = Append(asyncCalls, request_id[t])
    /\ request_callbacks' =
           [i \in DOMAIN request_callbacks \cup {request_id[t]} |->
               IF i = request_id[t] THEN Len(asyncCalls) + 1 ELSE request_callbacks[i]]
    /\ pc' = [pc EXCEPT ![t] = "put"]
    /\ UNCHANGED <<server_process, running, next_request_id, response_queue,
                   write_queue, reader_thread, writer_thread>>
    /\ UNCHANGED <<procVars, threadVars, restVars>>
    /\ UNCHANGED <<op, request_id, loaded, ret, stoppedAtCall, calls>>
    /\ UNCHANGED <<allocated, timedOut, cbCalls, dispatched>>

\* base.py 331 / 364: self.write_queue.put(request). _send_request_async
\* returns here; _send_request_sync goes on to wait.
PutRequest(t) ==
    /\ pc[t] = "put"
    /\ write_queue' = Put(write_queue, Request(request_id[t], MethodOf(op[t])))
    /\ pc' = [pc EXCEPT ![t] = IF op[t] = "async" THEN "done" ELSE "wait"]
    /\ UNCHANGED <<server_process, running, next_request_id, request_callbacks,
                   response_queue, reader_thread, writer_thread>>
    /\ UNCHANGED <<procVars, threadVars, histVars, restVars>>
    /\ UNCHANGED <<op, request_id, loaded, ret, stoppedAtCall, calls>>

\* What response_queue.get hands to the caller that waits (base.py 335).
QueuedResponse(queue) == Head(queue)

\* A response_queue.get without timeout: the caller waits until a response
\* is queued.
WaitForever(t) ==
    /\ pc[t] = "wait"
    /\ response_queue # <<>>
    /\ ret' = [ret EXCEPT ![t] = QueuedResponse(response_queue)]
    /\ response_queue' = Tail(response_queue)
    /\ pc' = [pc EXCEPT ![t] = IF op[t] = "sync" THEN "done" ELSE "result"]
    /\ UNCHANGED <<server_process, running, next_request_id, request_callbacks,
                   write_queue, reader_thread, writer_thread>>
    /\ UNCHANGED <<procVars, threadVars, histVars, restVars>>
    /\ UNCHANGED <<op, request_id, loaded, stoppedAtCall, calls>>

\* base.py 335-340: response_queue.get(timeout=10): the oldest queued
\* response, or queue.Empty when nothing was queued in time, and then {}.
Wait(t) ==
    /\ pc[t] = "wait"
    /\ IF response_queue # <<>>
       THEN /\ ret' = [ret EXCEPT ![t] = QueuedResponse(response_queue)]
            /\ response_queue' = Tail(response_queue)
            /\ UNCHANGED timedOut
       ELSE /\ ret' = [ret EXCEPT ![t] = Empty]
            /\ timedOut' = timedOut \cup {request_id[t]}
            /\ UNCHANGED response_queue
    /\ pc' = [pc EXCEPT ![t] = IF op[t] = "sync" THEN "done" ELSE "result"]
    /\ UNCHANGED <<server_process, running, next_request_id, request_callbacks,
                   write_queue, reader_thread, writer_thread>>
    /\ UNCHANGED <<procVars, threadVars, restVars>>
    /\ UNCHANGED <<op, request_id, loaded, stoppedAtCall, calls>>
    /\ UNCHANGED <<allocated, asyncCalls, cbCalls, dispatched>>

\* The operation returns (or has raised); the caller is free for the next one.
Return(t) ==
    /\ pc[t] \in {"done", "raised"}
    /\ pc' = [pc EXCEPT ![t] = "idle"]
    /\ op' = [op EXCEPT ![t] = "none"]
    /\ request_id' = [request_id EXCEPT ![t] = 0]
    /\ loaded' = [loaded EXCEPT ![t] = 0]
    /\ ret' = [ret EXCEPT ![t] = Empty]
    /\ stoppedAtCall' = [stoppedAtCall EXCEPT ![t] = FALSE]
    /\ UNCHANGED <<fieldVars, procVars, threadVars, histVars, restVars, calls>>

\* ---- the operations of the main thread; no other caller runs, so the
\* ---- statements of base.py 320-331 follow one another ------------------
\* base.py 320-331: the id taken, the counter advanced, the request queued.
SendRequest(t, method) ==
    /\ request_id' = [request_id EXCEPT ![t] = next_request_id]
    /\ allocated' = allocated \cup {next_request_id}
    /\ next_request_id' = next_request_id + 1
    /\ write_queue' = Put(write_queue, Request(next_request_id, method))

\* python_server.py 85-96 with base.py 94-119, 283: Popen has succeeded;
\* running = True, the two threads started, and the initialize request of
\* _initialize_lsp_server queued.
Launch(t) ==
    /\ server_process' = Len(poll) + 1
    /\ poll' = Append(poll, "alive")
    /\ stdin' = Append(stdin, <<>>)
    /\ stdout' = Append(stdout, <<>>)
    /\ answered' = Append(answered, {})
    /\ running' = TRUE
    /\ reader_thread' = Len(readerPc) + 1
    /\ writer_thread' = Len(writerPc) + 1
    /\ readerPc' = Append(readerPc, "check")
    /\ readerProc' = Append(readerProc, 0)
    /\ writerPc' = Append(writerPc, "check")
    /\ SendRequest(t, MethodOf("start"))
    /\ UNCHANGED <<request_callbacks, response_queue>>

\* A failed launch that leaves the running flag set.
NoLaunchRunning ==
    /\ running' = TRUE
    /\ UNCHANGED <<server_process, next_request_id, request_callbacks, response_queue,
                   write_queue, reader_thread, writer_thread>>
    /\ UNCHANGED <<procVars, threadVars, request_id, allocated>>

\* Nothing launched: no process, no thread, no message.
NoLaunch == UNCHANGED <<fieldVars, procVars, threadVars, request_id, allocated>>

\* python_server.py 76-102, start(): nothing when the backend runs; otherwise
\* Popen, whose exception start() re-raises, and the launch.
StartWithin(t, maxId) ==
    /\ pc[t] = "idle"
    /\ calls[t] < MaxOps
    /\ calls' = [calls EXCEPT ![t] = calls[t] + 1]
    /\ op' = [op EXCEPT ![t] = "start"]
    /\ IF is_running
       THEN /\ pc' = [pc EXCEPT ![t] = "done"]
            /\ NoLaunch
       ELSE /\ Len(poll) < MaxProcs
            /\ next_request_id <= maxId
            /\ \/ /\ pc' = [pc EXCEPT ![t] = "raised"]
                  /\ NoLaunch
               \/ /\ pc' = [pc EXCEPT ![t] = "wait"]
                  /\ Launch(t)
    /\ UNCHANGED <<loaded, ret, stoppedAtCall, restVars>>
    /\ UNCHANGED <<timedOut, asyncCalls, cbCalls, dispatched>>

StartCall(t) == StartWithin(t, MaxId)

\* The operations on a document of a file.
DocOps == {"run_linter", "run_formatter"}

\* The implementations of get_definition / get_references: that of
\* BaseLanguageServerManager, which the JavaScript manager inherits, and the
\* override of PythonLanguageServerManager.
Implementations == {"get_definition", "py_get_definition"}

\* base.py 419-421 and 480-482, python_server.py 343-345 and 376-378:
\* "if not self.is_running(): self.start()", inside no try block.
RequestCall(t, impl) ==
    /\ pc[t] = "idle"
    /\ calls[t] < MaxOps
    /\ calls' = [calls EXCEPT ![t] = calls[t] + 1]
    /\ op' = [op EXCEPT ![t] = impl]
    /\ IF is_running
       THEN /\ pc' = [pc EXCEPT ![t] = "request"]
            /\ NoLaunch
       ELSE /\ Len(poll) < MaxProcs
            /\ next_request_id <= MaxId
            /\ \/ /\ pc' = [pc EXCEPT ![t] = "raised"]
                  /\ NoLaunch
               \/ /\ pc' = [pc EXCEPT ![t] = "wait"]
                  /\ Launch(t)
    /\ UNCHANGED <<loaded, ret, stoppedAtCall, restVars>>
    /\ UNCHANGED <<timedOut, asyncCalls, cbCalls, dispatched>>

\* base.py 435 and 499: _send_request_sync called by get_definition or
\* get_references once start() has returned or was not needed.
CallSync(t) ==
    /\ pc[t] = "request"
    /\ op[t] = "get_definition"
    /\ next_request_id <= MaxId
    /\ op' = [op EXCEPT ![t] = "sync"]
    /\ SendRequest(t, MethodOf("sync"))
    /\ pc' = [pc EXCEPT ![t] = "wait"]
    /\ UNCHANGED <<server_process, running, request_callbacks, response_queue,
                   reader_thread, writer_thread>>
    /\ UNCHANGED <<procVars, threadVars, restVars>>
    /\ UNCHANGED <<loaded, ret, stoppedAtCall, calls>>
    /\ UNCHANGED <<timedOut, asyncCalls, cbCalls, dispatched>>

\* python_server.py 359 and 395: self._send_lsp_request, an attribute that no
\* class defines; the AttributeError leaves the operation.
SendLspRequest(t) ==
    /\ pc[t] = "request"
    /\ op[t] = "py_get_definition"
    /\ pc' = [pc EXCEPT ![t] = "raised"]
    /\ UNCHANGED <<fieldVars, procVars, threadVars, histVars, restVars>>
    /\ UNCHANGED <<op, request_id, loaded, ret, stoppedAtCall, calls>>

\* A handshake that gives the session up when it gets no result.
InitializeResultOrStop(t) ==
    /\ pc[t] = "result"
    /\ op[t] \in {"start"} \cup Implementations \cup DocOps
    /\ write_queue' =
           IF HasResultKey(ret[t])
           THEN write_queue \o <<Notification("initialized"),
                                 Notification("workspace/didChangeConfiguration"),
                                 Notification("workspace/didChangeConfiguration")>>
           ELSE write_queue
    /\ running' = HasResultKey(ret[t])
    /\ pc' = [pc EXCEPT ![t] = IF ~HasResultKey(ret[t]) THEN "raised"
                               ELSE IF op[t] = "start" THEN "done" ELSE "request"]
    /\ UNCHANGED <<server_process, next_request_id, request_callbacks,
                   response_queue, reader_thread, writer_thread>>
    /\ UNCHANGED <<procVars, threadVars, histVars, restVars>>
    /\ UNCHANGED <<op, request_id, loaded, ret, stoppedAtCall, calls>>

\* base.py 285-296 and python_server.py 99, 129-134: after a response with a
\* result, "initialized" and workspace/didChangeConfiguration; then, in every
\* case, the configuration notification of _configure_server.
InitializeResult(t) ==
    /\ pc[t] = "result"
    /\ op[t] \in {"start"} \cup Implementations \cup DocOps
    /\ write_queue' =
           IF HasResultKey(ret[t])
           THEN write_queue \o <<Notification("initialized"),
                                 Notification("workspace/didChangeConfiguration"),
                                 Notification("workspace/didChangeConfiguration")>>
           ELSE Put(write_queue, Notification("workspace/didChangeConfiguration"))
    /\ pc' = [pc EXCEPT ![t] = IF op[t] = "start" THEN "done" ELSE "request"]
    /\ UNCHANGED <<server_process, running, next_request_id, request_callbacks,
                   response_queue, reader_thread, writer_thread>>
    /\ UNCHANGED <<procVars, threadVars, histVars, restVars>>
    /\ UNCHANGED <<op, request_id, loaded, ret, stoppedAtCall, calls>>

\* python_server.py 104-107 and base.py 121-126, 301: stop() has no guard;
\* running = False, then the shutdown request of _send_shutdown_request.
StopCall(t) ==
    /\ pc[t] = "idle"
    /\ calls[t] < MaxOps
    /\ next_request_id <= MaxId
    /\ calls' = [calls EXCEPT ![t] = calls[t] + 1]
    /\ op' = [op EXCEPT ![t] = "stop"]
    /\ stoppedAtCall' = [stoppedAtCall EXCEPT ![t] = (server_process = 0)]
    /\ running' = FALSE
    /\ SendRequest(t, MethodOf("stop"))
    /\ pc' = [pc EXCEPT ![t] = "wait"]
    /\ UNCHANGED <<server_process, request_callbacks, response_queue,
                   reader_thread, writer_thread>>
    /\ UNCHANGED <<procVars, threadVars, restVars>>
    /\ UNCHANGED <<loaded, ret>>
    /\ UNCHANGED <<timedOut, asyncCalls, cbCalls, dispatched>>

\* base.py 303-308: the exit notification after a response with a result.
ShutdownResult(t) ==
    /\ pc[t] = "result"
    /\ op[t] = "stop"
    /\ write_queue' = IF HasResultKey(ret[t])
                      THEN Put(write_queue, Notification("exit"))
                      ELSE write_queue
    /\ pc' = [pc EXCEPT ![t] = "terminate"]
    /\ UNCHANGED <<server_process, running, next_request_id, request_callbacks,
                   response_queue, reader_thread, writer_thread>>
    /\ UNCHANGED <<procVars, threadVars, histVars, restVars>>
    /\ UNCHANGED <<op, request_id, loaded, ret, stoppedAtCall, calls>>

\* base.py 128-132 (each join gives up after 2 s) and python_server.py
\* 109-119: a live process is terminated (killed after 5 s) and forgotten.
Terminate(t) ==
    /\ pc[t] = "terminate"
    /\ IF is_running
       THEN /\ poll' = [poll EXCEPT ![server_process] = "exited"]
            /\ server_process' = 0
       ELSE UNCHANGED <<poll, server_process>>
    /\ pc' = [pc EXCEPT ![t] = "done"]
    /\ UNCHANGED <<running, next_request_id, request_callbacks, response_queue,
                   write_queue, reader_thread, writer_thread>>
    /\ UNCHANGED <<stdin, stdout, answered, threadVars, histVars, restVars>>
    /\ UNCHANGED <<op, request_id, loaded, ret, stoppedAtCall, calls>>

\* A frame whose body is no valid JSON or whose Content-Length is no number,
\* and the end of file of a closed stdout (readline returns b"").
Malformed == [id |-> 0, method |-> "", body |-> "malformed"]
Closed == [id |-> 0, method |-> "", body |-> "eof"]

StreamClosed(p) == stdout[p] # <<>> /\ stdout[p][Len(stdout[p])] = Closed

\* ---- reader thread (base.py 134-167) ---------------------------------
ReaderCheck(g) ==
    /\ readerPc[g] = "check"
    /\ IF LoopCondition
       THEN /\ readerPc' = [readerPc EXCEPT ![g] = "read"]
            /\ readerProc' = [readerProc EXCEPT ![g] = server_process]
       ELSE /\ readerPc' = [readerPc EXCEPT ![g] = "dead"]
            /\ UNCHANGED readerProc
    /\ UNCHANGED <<fieldVars, procVars, writerPc, callerVars, histVars, restVars>>

\* base.py 198-216, _process_lsp_message: a message with "id" and "result"
\* goes to its callback, or to response_queue when no callback has its id;
\* one with "method" and no "id" goes to _handle_notification (218-239,
\* which logs); anything else is ignored.
IsResponseById(msg) == msg.id # 0

IsResponse(msg) == msg.id # 0 /\ msg.body = "result"

ProcessMessage(msg) ==
    IF IsResponse(msg)
    THEN IF msg.id \in DOMAIN request_callbacks
         THEN /\ request_callbacks' =
                     [i \in DOMAIN request_callbacks \ {msg.id} |-> request_callbacks[i]]
              /\ cbCalls' = Append(cbCalls, [cb |-> request_callbacks[msg.id], id |-> msg.id])
              /\ UNCHANGED response_queue
         ELSE /\ response_queue' = Put(response_queue, msg)
              /\ UNCHANGED <<request_callbacks, cbCalls>>
    ELSE UNCHANGED <<request_callbacks, cbCalls, response_queue>>

\* base.py 141-167: one frame read and processed; a frame that int() or
\* json.loads rejects raises inside the try block, and the except clause ends
\* the loop; the empty line that readline returns at end of file (the process
\* has exited, or has closed its stdout) continues the loop.
ReaderRead(g) ==
    /\ readerPc[g] = "read"
    /\ LET p == readerProc[g]
       IN  \/ /\ stdout[p] # <<>>
              /\ Head(stdout[p]) \notin {Malformed, Closed}
              /\ stdout' = [stdout EXCEPT ![p] = Tail(stdout[p])]
              /\ ProcessMessage(Head(stdout[p]))
              /\ dispatched' = IF Head(stdout[p]).method = ""
                                    /\ \E k \in DOMAIN asyncCalls :
                                           asyncCalls[k] = Head(stdout[p]).id
                               THEN dispatched \cup {Head(stdout[p]).id}
                               ELSE dispatched
              /\ readerPc' = [readerPc EXCEPT ![g] = "check"]
           \/ /\ stdout[p] # <<>>
              /\ Head(stdout[p]) = Malformed
              /\ stdout' = [stdout EXCEPT ![p] = Tail(stdout[p])]
              /\ readerPc' = [readerPc EXCEPT ![g] = "dead"]
              /\ UNCHANGED <<request_callbacks, cbCalls, response_queue, dispatched>>
           \/ /\ \/ stdout[p] = <<>> /\ poll[p] = "exited"
                 \/ stdout[p] # <<>> /\ Head(stdout[p]) = Closed
              /\ readerPc' = [readerPc EXCEPT ![g] = "check"]
              /\ UNCHANGED <<stdout, request_callbacks, cbCalls, response_queue, dispatched>>
    /\ UNCHANGED <<server_process, running, next_request_id, write_queue,
                   reader_thread, writer_thread>>
    /\ UNCHANGED <<poll, stdin, answered, readerProc, writerPc, callerVars, restVars>>
    /\ UNCHANGED <<allocated, timedOut, asyncCalls>>

\* ---- writer thread (base.py 169-196) ---------------------------------
WriterCheck(g) ==
    /\ writerPc[g] = "check"
    /\ writerPc' = [writerPc EXCEPT ![g] = IF LoopCondition THEN "get" ELSE "dead"]
    /\ UNCHANGED <<fieldVars, procVars, readerPc, readerProc, callerVars, histVars, restVars>>

\* base.py 178-196: write_queue.get(timeout=0.5); the message framed, written
\* to the current process's stdin and flushed. queue.Empty continues the loop;
\* any other exception (no process, broken pipe) ends the thread.
WriterGet(g) ==
    /\ writerPc[g] = "get"
    /\ IF write_queue = <<>>
       THEN /\ writerPc' = [writerPc EXCEPT ![g] = "check"]
            /\ UNCHANGED <<write_queue, stdin>>
       ELSE /\ write_queue' = Tail(write_queue)
            /\ IF is_running
               THEN /\ stdin' = [stdin EXCEPT ![server_process] =
                                     Append(stdin[server_process], Head(write_queue))]
                    /\ writerPc' = [writerPc EXCEPT ![g] = "check"]
               ELSE /\ writerPc' = [writerPc EXCEPT ![g] = "dead"]
                    /\ UNCHANGED stdin
    /\ UNCHANGED <<server_process, running, next_request_id, request_callbacks,
                   response_queue, reader_thread, writer_thread>>
    /\ UNCHANGED <<poll, stdout, answered, readerPc, readerProc, callerVars,
                   histVars, restVars>>

\* ---- the backend process ---------------------------------------------
\* The backend answers a request it has received and not answered yet, in
\* any order, with a result or with an error.
BackendRespond(p) ==
    /\ poll[p] = "alive"
    /\ ~StreamClosed(p)
    /\ \E i \in 1..Len(stdin[p]), body \in {"result", "error"} :
          /\ stdin[p][i].id # 0
          /\ stdin[p][i].id \notin answered[p]
          /\ stdout' = [stdout EXCEPT ![p] = Append(stdout[p], Response(stdin[p][i].id, body))]
          /\ answered' = [answered EXCEPT ![p] = answered[p] \cup {stdin[p][i].id}]
    /\ UNCHANGED <<fieldVars, poll, stdin, threadVars, callerVars, histVars, restVars>>

\* The backend writes a malformed frame where the answer to a request was due.
BackendMalformed(p) ==
    /\ poll[p] = "alive"
    /\ ~StreamClosed(p)
    /\ \E i \in 1..Len(stdin[p]) :
          /\ stdin[p][i].id # 0
          /\ stdin[p][i].id \notin answered[p]
          /\ stdout' = [stdout EXCEPT ![p] = Append(stdout[p], Malformed)]
          /\ answered' = [answered EXCEPT ![p] = answered[p] \cup {stdin[p][i].id}]
    /\ UNCHANGED <<fieldVars, poll, stdin, threadVars, callerVars, histVars, restVars>>

\* The backend closes its stdout and stays alive.
BackendClose(p) ==
    /\ poll[p] = "alive"
    /\ ~StreamClosed(p)
    /\ stdout' = [stdout EXCEPT ![p] = Append(stdout[p], Closed)]
    /\ UNCHANGED <<fieldVars, poll, stdin, answered, threadVars, callerVars,
                   histVars, restVars>>

\* The backend exits on its own.
BackendExit(p) ==
    /\ poll[p] = "alive"
    /\ poll' = [poll EXCEPT ![p] = "exited"]
    /\ UNCHANGED <<fieldVars, stdin, stdout, answered, threadVars, callerVars,
                   histVars, restVars>>

\* base.py 21-39: the session as constructed, no caller inside an operation.
Init ==
    /\ server_process = 0
    /\ running = FALSE
    /\ next_request_id = 1
    /\ request_callbacks = <<>>
    /\ response_queue = <<>>
    /\ write_queue = <<>>
    /\ reader_thread = 0
    /\ writer_thread = 0
    /\ poll = <<>>
    /\ stdin = <<>>
    /\ stdout = <<>>
    /\ answered = <<>>
    /\ readerPc = <<>>
    /\ readerProc = <<>>
    /\ writerPc = <<>>
    /\ InitCallers
    /\ allocated = {}
    /\ timedOut = {}
    /\ asyncCalls = <<>>
    /\ cbCalls = <<>>
    /\ dispatched = {}
    /\ fpc = "idle"
    /\ content = <<>>
    /\ response = NoResponse
    /\ new_content = NoText
    /\ fmtPath = "none"
    /\ fallback = NoFallback
    /\ returned = NoText
    /\ InitWriterIdle
    /\ InitDocIdle
    /\ InitRefsIdle
    /\ InitWireIdle
    /\ InitServiceIdle

ThreadStep ==
    \/ \E g \in DOMAIN readerPc : ReaderCheck(g) \/ ReaderRead(g)
    \/ \E g \in DOMAIN writerPc : WriterCheck(g) \/ WriterGet(g)

\* The life of one session driven from the main thread.
Next ==
    \/ StartCall("main")
    \/ InitializeResult("main")
    \/ StopCall("main")
    \/ ShutdownResult("main")
    \/ Terminate("main")
    \/ \E impl \in Implementations : RequestCall("main", impl)
    \/ CallSync("main")
    \/ SendLspRequest("main")
    \/ Wait("main")
    \/ Return("main")
    \/ ThreadStep
    \/ \E p \in DOMAIN poll : BackendRespond(p) \/ BackendExit(p)

Spec == Init /\ [][Next]_vars

\* stop() runs on the calling thread and every wait in it is bounded: the
\* response by 10 s (base.py 335), each join by 2 s (base.py 129, 132), the
\* process by 5 s and then kill (python_server.py 112-116). Once begun, each
\* of its steps is taken.
SpecLive ==
    /\ Init
    /\ [][Next]_vars
    /\ WF_vars(Wait("main"))
    /\ WF_vars(ShutdownResult("main"))
    /\ WF_vars(Terminate("main"))

\* Several caller threads on one started session.
InitCorr ==
    /\ InitReady
    /\ fpc = "idle"
    /\ content = <<>>
    /\ response = NoResponse
    /\ new_content = NoText
    /\ fmtPath = "none"
    /\ fallback = NoFallback
    /\ returned = NoText
    /\ InitWriterIdle
    /\ InitDocIdle
    /\ InitRefsIdle
    /\ InitWireIdle
    /\ InitServiceIdle

NextCorr ==
    \/ \E t \in Threads :
          \/ CallRequest(t, "sync")
          \/ CallRequest(t, "async")
          \/ ReadId(t)
          \/ IncLoad(t)
          \/ IncStore(t)
          \/ Register(t)
          \/ PutRequest(t)
          \/ Wait(t)
          \/ Return(t)
    \/ ThreadStep
    \/ \E p \in DOMAIN poll : BackendRespond(p)

SpecCorr == InitCorr /\ [][NextCorr]_vars

\* A started session, its backend and its loops: requests of the main thread,
\* and a backend that answers, writes malformed frames, closes its stdout or
\* exits.
NextTransport ==
    \/ \E impl \in Implementations : RequestCall("main", impl)
    \/ InitializeResult("main")
    \/ CallSync("main")
    \/ SendLspRequest("main")
    \/ Wait("main")
    \/ Return("main")
    \/ ThreadStep
    \/ \E p \in DOMAIN poll :
          BackendRespond(p) \/ BackendMalformed(p) \/ BackendClose(p) \/ BackendExit(p)

\* The reader threads are scheduled: a reader that can take a step takes one.
SpecTransport ==
    /\ InitCorr
    /\ [][NextTransport]_vars
    /\ \A g \in 1..MaxProcs :
          WF_vars(g \in DOMAIN readerPc /\ (ReaderCheck(g) \/ ReaderRead(g)))

(***************************************************************************)
(* The bytes of the pipe: the frames the writer builds and the framing     *)
(* logic of the reader. A byte is a string. CL stands for the bytes of     *)
(* "Content-Length:", CT for those of a further header line such as        *)
(* "Content-Type: application/vscode-jsonrpc; charset=utf8", EOL for the   *)
(* line terminator "\r\n"; a numeral stands for the decimal digits of a    *)
(* length; of a JSON body the braces, one byte for each of the keys "id",  *)
(* "method", "result"/"error" and "type" with its value, and the bytes of  *)
(* the text in params are kept.                                            *)
(***************************************************************************)
MaxFrames == 2
MaxBlanks == 1

CL == "Content-Length:"
CT == "Content-Type:"
EOL == "\r\n"

\* A message with what its params carry: text (a sequence of characters, the
\* non-ASCII one included) and the "type" of a window/logMessage (0: no
\* "type" key).
WireMsg(id, method, body, type, text) ==
    [id |-> id, method |-> method, body |-> body, type |-> type, text |-> text]

Plain(m) == [id |-> m.id, method |-> m.method, body |-> m.body]

\* The characters of a text: an ASCII one and one outside ASCII.
Ascii == "a"
NonAscii == "U+00E9"

ParamTexts == {<<>>, <<Ascii>>, <<NonAscii>>}
Severities == 0..5

\* What the session's writer frames, and what a backend sends.
ClientMessages ==
    {WireMsg(1, "textDocument/definition", "none", 0, x) : x \in ParamTexts}
        \cup {WireMsg(0, "initialized", "none", 0, x) : x \in ParamTexts}
\* A request of the backend to the client: a method and an id of the
\* backend's own numbering.
ServerRequest == WireMsg(2, "window/logMessage", "none", 1, <<>>)

ServerMessages ==
    {WireMsg(1, "", "result", 0, <<>>), ServerRequest}
        \cup {WireMsg(0, "window/logMessage", "none", ty, <<>>) : ty \in Severities}
WireMessages == ClientMessages \cup ServerMessages

Numerals == {ToString(n) : n \in 0..20}
ParseInt(numeral) == CHOOSE n \in 0..20 : ToString(n) = numeral

\* json.dumps (ensure_ascii is left at True): an ASCII character is one
\* byte, any other character the six ASCII bytes of its \uXXXX escape.
Escaped == <<"\\", "u", "0", "0", "e", "9">>

RECURSIVE EscapeText(_)
EscapeText(text) ==
    IF text = <<>> THEN <<>>
    ELSE (IF Head(text) = Ascii THEN <<Ascii>> ELSE Escaped) \o EscapeText(Tail(text))

\* base.py 180: content = json.dumps(message).encode("utf-8")
Dumps(m) ==
    <<"{", ToString(m.id), m.method, m.body, ToString(m.type)>>
        \o EscapeText(m.text) \o <<"}">>


\* base.py 181: len(content), the number of bytes of the encoded body.
ContentLength(m) == Len(Dumps(m))

\* base.py 180-184: header + content as the writer hands it to stdin.write.
Frame(m) == <<CL, ToString(ContentLength(m)), EOL, EOL>> \o Dumps(m)

\* bytes.strip(): the whitespace at both ends removed.
RECURSIVE LStrip(_)
LStrip(bytes) ==
    IF bytes # <<>> /\ Head(bytes) = EOL THEN LStrip(Tail(bytes)) ELSE bytes

RECURSIVE RStrip(_)
RStrip(bytes) ==
    IF bytes # <<>> /\ bytes[Len(bytes)] = EOL
    THEN RStrip(SubSeq(bytes, 1, Len(bytes) - 1))
    ELSE bytes

Strip(bytes) == RStrip(LStrip(bytes))

\* json.loads of the text in params: the inverse of EscapeText where there
\* is one.
RECURSIVE ValidText(_)
ValidText(bytes) ==
    \/ bytes = <<>>
    \/ /\ Head(bytes) = Ascii
       /\ ValidText(Tail(bytes))
    \/ /\ Len(bytes) >= Len(Escaped)
       /\ SubSeq(bytes, 1, Len(Escaped)) = Escaped
       /\ ValidText(SubSeq(bytes, Len(Escaped) + 1, Len(bytes)))

RECURSIVE Unescape(_)
Unescape(bytes) ==
    IF bytes = <<>> THEN <<>>
    ELSE IF Head(bytes) = Ascii THEN <<Ascii>> \o Unescape(Tail(bytes))
    ELSE <<NonAscii>> \o Unescape(SubSeq(bytes, Len(Escaped) + 1, Len(bytes)))

\* base.py 157: json.loads(content.decode("utf-8")) raises unless the bytes,
\* whitespace around them apart, are one whole JSON document.
Decodes(bytes) ==
    LET b == Strip(bytes)
    IN  /\ Len(b) >= 6
        /\ b[1] = "{"
        /\ b[Len(b)] = "}"
        /\ b[2] \in Numerals
        /\ b[5] \in Numerals
        /\ ValidText(SubSeq(b, 6, Len(b) - 1))

Loads(bytes) ==
    LET b == Strip(bytes)
    IN  WireMsg(ParseInt(b[2]), b[3], b[4], ParseInt(b[5]), Unescape(SubSeq(b, 6, Len(b) - 1)))

\* The frames a peer puts on the pipe: the body under a header block of
\* Content-Length alone, of Content-Length and a further header, or of a
\* further header and Content-Length, after some empty lines.
Styles == {"CL", "CL+CT", "CT+CL"}

Header(style, n) ==
    CASE style = "CL" -> <<CL, ToString(n), EOL, EOL>>
      [] style = "CL+CT" -> <<CL, ToString(n), EOL, CT, EOL, EOL>>
      [] OTHER -> <<CT, EOL, CL, ToString(n), EOL, EOL>>

Blanks(n) == [i \in 1..n |-> EOL]

PeerFrame(f) ==
    Blanks(f.blanks)
        \o (IF f.style = "CL" THEN Frame(f.msg)
            ELSE Header(f.style, ContentLength(f.msg)) \o Dumps(f.msg))

RECURSIVE BytesFrom(_, _)
BytesFrom(frames, i) ==
    IF i > Len(frames) THEN <<>> ELSE PeerFrame(frames[i]) \o BytesFrom(frames, i + 1)

PeerFrames == [msg : WireMessages, style : Styles, blanks : 0..MaxBlanks]

FrameLists == UNION {[1..n -> PeerFrames] : n \in 1..MaxFrames}

\* The language property of the three managers (python_server.py 16-23,
\* javascript_server.py, java_server.py 14-21).
Languages == {"python", "javascript", "java"}

\* A readline that reads to the end of the stream.
LineLenToEnd(bytes) == Len(bytes)

\* io readline(): the bytes up to and including the first line terminator,
\* or all the bytes left when the stream ends before one.
RECURSIVE LineLen(_)
LineLen(bytes) ==
    IF bytes = <<>> THEN 0
    ELSE IF Head(bytes) = EOL THEN 1
    ELSE 1 + LineLen(Tail(bytes))

Readline(bytes) == SubSeq(bytes, 1, LineLen(bytes))
AfterLine(bytes) == SubSeq(bytes, LineLen(bytes) + 1, Len(bytes))

\* base.py 148-150: int(line.split(b":")[1]); -1 stands for the ValueError
\* or IndexError of a line that carries no number.
ParseLength(line) ==
    IF Len(line) >= 2 /\ line[2] \in Numerals THEN ParseInt(line[2]) ELSE -1

\* base.py 152-154: one readline() after the Content-Length line, and one
\* more when self.language == "python".
SkippedLines(lang) == IF lang = "python" THEN 2 ELSE 1

RECURSIVE SkipLines(_, _)
SkipLines(bytes, n) == IF n = 0 THEN bytes ELSE SkipLines(AfterLine(bytes), n - 1)

\* base.py 155: stdout.read(content_length) on the pipe opened with bufsize=0
\* (python_server.py 85-92): one read system call, which returns the bytes
\* the pipe holds at that moment, at least one and at most content_length of
\* them, and none at the end of the stream.
ReadSizes(n, bytes) ==
    IF n <= 0 \/ bytes = <<>> THEN {0}
    ELSE 1..(IF n < Len(bytes) THEN n ELSE Len(bytes))

\* base.py 229-237: message_type = params.get("type", 4), and the level
\* log_levels.get(message_type, logging.INFO).
MessageType(m) == IF m.type = 0 THEN 4 ELSE m.type

\* A table whose default level is DEBUG.
LogLevelDefaultDebug(message_type) ==
    CASE message_type = 1 -> "ERROR"
      [] message_type = 2 -> "WARNING"
      [] message_type = 3 -> "INFO"
      [] OTHER -> "DEBUG"

LogLevel(message_type) ==
    CASE message_type = 1 -> "ERROR"
      [] message_type = 2 -> "WARNING"
      [] message_type = 3 -> "INFO"
      [] message_type = 4 -> "DEBUG"
      [] OTHER -> "INFO"

\* base.py 218-239, _handle_notification: a window/logMessage is logged, any
\* other notification is not looked at.
HandleNotification(m) ==
    logged' = IF m.method = "window/logMessage"
              THEN Append(logged, [type |-> m.type, level |-> LogLevel(MessageType(m))])
              ELSE logged

\* base.py 143-150: a line read and stripped; an empty one (a blank line, or
\* the end of the stream) continues the loop, one that starts with
\* Content-Length: gives content_length, any other line is passed over.
WireReadline ==
    /\ rpc = "readline"
    /\ LET line == Strip(Readline(wire))
       IN  IF wire = <<>>
           THEN /\ rpc' = "eof"
                /\ UNCHANGED <<wire, content_length>>
           ELSE /\ wire' = AfterLine(wire)
                /\ IF line # <<>> /\ line[1] = CL
                   THEN IF ParseLength(line) < 0
                        THEN /\ rpc' = "dead"
                             /\ UNCHANGED content_length
                        ELSE /\ rpc' = "skip"
                             /\ content_length' = ParseLength(line)
                   ELSE UNCHANGED <<rpc, content_length>>
    /\ UNCHANGED <<language, sent, read_content, shortRead, decoded, logged>>
    /\ UNCHANGED <<sessVars, fmtVars, message, serviceVars, isfile, refVars>>

\* base.py 152-154: the lines after the Content-Length line passed over.
WireSkip ==
    /\ rpc = "skip"
    /\ wire' = SkipLines(wire, SkippedLines(language))
    /\ rpc' = "read"
    /\ UNCHANGED <<language, sent, content_length, read_content, shortRead, decoded, logged>>
    /\ UNCHANGED <<sessVars, fmtVars, message, serviceVars, isfile, refVars>>

\* base.py 155: content = self.server_process.stdout.read(content_length)
WireRead ==
    /\ rpc = "read"
    /\ \E k \in ReadSizes(content_length, wire) :
          /\ read_content' = SubSeq(wire, 1, k)
          /\ wire' = SubSeq(wire, k + 1, Len(wire))
          /\ shortRead' = (shortRead \/ (k < content_length /\ k < Len(wire)))
    /\ rpc' = "loads"
    /\ UNCHANGED <<language, sent, content_length, decoded, logged>>
    /\ UNCHANGED <<sessVars, fmtVars, message, serviceVars, isfile, refVars>>

\* base.py 157-158 and 160-167: the body decoded and the message processed;
\* the exception of json.loads ends the loop.
WireLoads ==
    /\ rpc = "loads"
    /\ IF Decodes(read_content)
       THEN LET m == Loads(read_content)
            IN  /\ decoded' = Append(decoded, m)
                /\ ProcessMessage(Plain(m))
                /\ IF m.method # "" /\ m.id = 0
                   THEN HandleNotification(m)
                   ELSE UNCHANGED logged
                /\ rpc' = "readline"
       ELSE /\ rpc' = "dead"
            /\ UNCHANGED <<decoded, logged, request_callbacks, cbCalls, response_queue>>
    /\ UNCHANGED <<language, sent, wire, content_length, read_content, shortRead>>
    /\ UNCHANGED <<server_process, running, next_request_id, write_queue,
                   reader_thread, writer_thread>>
    /\ UNCHANGED <<procVars, threadVars, callerVars, fmtVars, message, serviceVars, isfile, refVars>>
    /\ UNCHANGED <<allocated, timedOut, asyncCalls, dispatched>>

\* base.py 342-364, _send_request_async, called on the main thread while the
\* reader works: the id taken, the callback registered under it, the request
\* queued.
WireAsync ==
    /\ request_callbacks = <<>>
    /\ next_request_id <= MaxId
    /\ asyncCalls' = Append(asyncCalls, next_request_id)
    /\ request_callbacks' = (next_request_id :> (Len(asyncCalls) + 1))
    /\ SendRequest("main", MethodOf("async"))
    /\ UNCHANGED <<server_process, running, response_queue, reader_thread, writer_thread>>
    /\ UNCHANGED <<procVars, threadVars, pc, op, loaded, ret, stoppedAtCall, calls>>
    /\ UNCHANGED <<timedOut, cbCalls, dispatched, restVars>>

\* No run_formatter call is under way.
InitFmtIdle ==
    /\ fpc = "idle"
    /\ content = <<>>
    /\ response = NoResponse
    /\ new_content = NoText
    /\ fmtPath = "none"
    /\ fallback = NoFallback
    /\ returned = NoText

\* The reader of a started session in front of what a peer has written.
InitWire ==
    /\ InitReady
    /\ InitFmtIdle
    /\ InitWriterIdle
    /\ InitDocIdle
    /\ InitRefsIdle
    /\ InitServiceIdle
    /\ language \in Languages
    /\ sent \in FrameLists
    /\ wire = BytesFrom(sent, 1)
    /\ rpc = "readline"
    /\ content_length = 0
    /\ read_content = <<>>
    /\ shortRead = FALSE
    /\ decoded = <<>>
    /\ logged = <<>>

NextWire ==
    \/ WireAsync
    \/ WireReadline
    \/ WireSkip
    \/ WireRead
    \/ WireLoads

SpecWire == InitWire /\ [][NextWire]_vars

(***************************************************************************)
(* The writer loop statement by statement: between write_queue.get and     *)
(* stdin.write the message is held by the thread, and the writer threads   *)
(* of a session interleave there.                                          *)
(***************************************************************************)
\* base.py 178: message = self.write_queue.get(timeout=0.5); queue.Empty
\* continues the loop.
WriterTake(g) ==
    /\ writerPc[g] = "get"
    /\ IF write_queue = <<>>
       THEN /\ writerPc' = [writerPc EXCEPT ![g] = "check"]
            /\ UNCHANGED <<write_queue, message>>
       ELSE /\ write_queue' = Tail(write_queue)
            /\ message' = (g :> Head(write_queue)) @@ message
            /\ writerPc' = [writerPc EXCEPT ![g] = "write"]
    /\ UNCHANGED <<server_process, running, next_request_id, request_callbacks,
                   response_queue, reader_thread, writer_thread>>
    /\ UNCHANGED <<procVars, readerPc, readerProc, callerVars, histVars>>
    /\ UNCHANGED <<fmtVars, wireVars, serviceVars, isfile, refVars>>

\* base.py 180-189: the message framed, written to the stdin of the current
\* process and flushed; the exception of a write to a process that is gone
\* ends the thread.
WriterWrite(g) ==
    /\ writerPc[g] = "write"
    /\ IF is_running
       THEN /\ stdin' = [stdin EXCEPT ![server_process] =
                             Append(stdin[server_process], message[g])]
            /\ writerPc' = [writerPc EXCEPT ![g] = "check"]
       ELSE /\ writerPc' = [writerPc EXCEPT ![g] = "dead"]
            /\ UNCHANGED stdin
    /\ UNCHANGED <<fieldVars, poll, stdout, answered, readerPc, readerProc>>
    /\ UNCHANGED <<callerVars, histVars, restVars>>

\* A started session whose backend may exit and be launched again by the
\* next request, with the writer threads taken one statement at a time.
NextWriter ==
    \/ RequestCall("main", "get_definition")
    \/ InitializeResult("main")
    \/ CallSync("main")
    \/ Wait("main")
    \/ Return("main")
    \/ \E g \in DOMAIN readerPc : ReaderCheck(g) \/ ReaderRead(g)
    \/ \E g \in DOMAIN writerPc : WriterCheck(g) \/ WriterTake(g) \/ WriterWrite(g)
    \/ \E p \in DOMAIN poll : BackendRespond(p) \/ BackendExit(p)

SpecWriter == InitCorr /\ [][NextWriter]_vars

\* A started session that is stopped and started again: stop() terminates
\* the backend (python_server.py 104-119), start() launches the next one
\* (76-102). The backend does not exit on its own, so that every launch
\* follows a stop(). The handshake of the first start() took request id 1,
\* stop() takes the next, the second start() the one after.
MaxRestartId == 3

NextRestart ==
    \/ StopCall("main")
    \/ ShutdownResult("main")
    \/ Terminate("main")
    \/ StartWithin("main", MaxRestartId)
    \/ InitializeResult("main")
    \/ Wait("main")
    \/ Return("main")
    \/ ThreadStep
    \/ \E p \in DOMAIN poll : BackendRespond(p)

SpecRestart == InitCorr /\ [][NextRestart]_vars

(***************************************************************************)
(* MultiLanguageServer (service.py): the managers it constructs, each with *)
(* its own session, and the routing of an operation by file extension.     *)
(***************************************************************************)
MaxSvcId == 2
MaxSvcQueue == 1

\* service.py 35-40: the keys of self.server_managers.
Backends == {"python", "javascript"}

\* base.py 21-39: the fields a manager's __init__ creates, on the manager
\* itself. process is "none" (server_process is None), "alive" or "exited".
NewSession ==
    [process |-> "none", running |-> FALSE, next_request_id |-> 1,
     request_callbacks |-> {}, write_queue |-> <<>>, response_queue |-> <<>>]

\* One session object shared by the managers.
SessionShared(b) == "python"

\* The session object an operation on the manager of backend b works on:
\* its own.
SessionOf(b) == b

\* An operation on the manager of backend b leaves its session as r.
Operate(b, r) ==
    /\ managers' = [managers EXCEPT ![SessionOf(b)] = r]
    /\ acting' = b
    /\ UNCHANGED <<svc, sessVars, fmtVars, message, wireVars, isfile, refVars>>

\* python_server.py 76-102, base.py 94-119 and 283: start() returns at once
\* on a running backend, and otherwise launches the process, sets running and
\* queues the initialize request.
Started(s) ==
    IF s.process = "alive" THEN s
    ELSE [s EXCEPT !.process = "alive", !.running = TRUE,
                   !.next_request_id = s.next_request_id + 1,
                   !.write_queue = Append(s.write_queue, s.next_request_id)]

\* python_server.py 104-119, base.py 121-132 and 298-308: running = False, the
\* shutdown request queued, and a live process terminated.
Stopped(s) ==
    [s EXCEPT !.running = FALSE,
              !.next_request_id = s.next_request_id + 1,
              !.write_queue = Append(s.write_queue, s.next_request_id),
              !.process = IF s.process = "alive" THEN "none" ELSE s.process]

MgrStart(b) ==
    LET s == managers[SessionOf(b)]
    IN  /\ s.next_request_id <= MaxSvcId
        /\ Len(s.write_queue) < MaxSvcQueue
        /\ Operate(b, Started(s))

MgrStop(b) ==
    LET s == managers[SessionOf(b)]
    IN  /\ s.next_request_id <= MaxSvcId
        /\ Len(s.write_queue) < MaxSvcQueue
        /\ Operate(b, Stopped(s))

\* base.py 310-364: a request takes the next id and is queued; an async one
\* registers its callback under the id.
MgrRequest(b, async) ==
    LET s == managers[SessionOf(b)]
    IN  /\ s.next_request_id <= MaxSvcId
        /\ Len(s.write_queue) < MaxSvcQueue
        /\ Operate(b, [s EXCEPT !.next_request_id = s.next_request_id + 1,
                                !.write_queue = Append(s.write_queue, s.next_request_id),
                                !.request_callbacks =
                                    IF async THEN s.request_callbacks \cup {s.next_request_id}
                                    ELSE s.request_callbacks])

\* base.py 366-382: a notification is queued (0: it has no id).
MgrNotify(b) ==
    LET s == managers[SessionOf(b)]
    IN  /\ Len(s.write_queue) < MaxSvcQueue
        /\ Operate(b, [s EXCEPT !.write_queue = Append(s.write_queue, 0)])

\* base.py 175-189: the writer of the session writes the message at the head
\* of its write_queue.
MgrWrite(b) ==
    LET s == managers[SessionOf(b)]
    IN  /\ s.running
        /\ s.process = "alive"
        /\ s.write_queue # <<>>
        /\ Operate(b, [s EXCEPT !.write_queue = Tail(s.write_queue)])

\* base.py 198-216: an inbound response goes to the callback under its id, or
\* to response_queue.
MgrInbound(b) ==
    LET s == managers[SessionOf(b)]
    IN  /\ s.process = "alive"
        /\ \E id \in 1..(s.next_request_id - 1) :
              IF id \in s.request_callbacks
              THEN Operate(b, [s EXCEPT !.request_callbacks = s.request_callbacks \ {id}])
              ELSE /\ Len(s.response_queue) < MaxSvcQueue
                   /\ Operate(b, [s EXCEPT !.response_queue = Append(s.response_queue, id)])

\* base.py 333-340: the sync caller takes the response at the head of
\* response_queue, or times out.
MgrWait(b) ==
    LET s == managers[SessionOf(b)]
    IN  Operate(b, IF s.response_queue = <<>> THEN s
                   ELSE [s EXCEPT !.response_queue = Tail(s.response_queue)])

\* The backend process of the session exits.
MgrExit(b) ==
    LET s == managers[SessionOf(b)]
    IN  /\ s.process = "alive"
        /\ Operate(b, [s EXCEPT !.process = "exited"])

\* os.path.splitext(file_path)[1].lower() (service.py 65) on the extensions
\* drawn here.
Extensions == {".py", ".PY", ".js", ".ts", ".jsx", ".tsx", ".java", ".txt", ""}
Lower(ext) == IF ext = ".PY" THEN ".py" ELSE ext

\* service.py 68-75: the dict display evaluates self.server_managers[k] for
\* each of its entries; a key self.server_managers does not have raises
\* KeyError.
ExtToServer ==
    [e \in {".py", ".js", ".ts", ".jsx", ".tsx", ".java"} |->
        CASE e = ".py" -> "python"
          [] e = ".java" -> "java"
          [] OTHER -> "javascript"]

\* service.py 56-77
get_server_for_file(ext) ==
    IF \E e \in DOMAIN ExtToServer : ExtToServer[e] \notin Backends
    THEN "KeyError"
    ELSE IF Lower(ext) \in DOMAIN ExtToServer THEN ExtToServer[Lower(ext)] ELSE "None"

ServiceOps == {"run_linter", "run_formatter", "get_definition", "get_references"}

\* service.py 79-153: the four routed operations; the exception of
\* get_server_for_file propagates, no server gives ValueError, and otherwise
\* the call goes to the manager.
ServiceCall(o, ext) ==
    /\ svc.op = "none"
    /\ svc' = [op |-> o, ext |-> ext, attempted |-> {},
               outcome |-> LET server == get_server_for_file(ext)
                           IN  CASE server = "KeyError" -> "KeyError"
                                 [] server = "None" -> "ValueError"
                                 [] OTHER -> server]
    /\ UNCHANGED <<managers, acting, sessVars, fmtVars, message, wireVars, isfile, refVars>>

\* service.py 24-42: the service as constructed.
InitService ==
    /\ InitReady
    /\ InitFmtIdle
    /\ InitWriterIdle
    /\ InitDocIdle
    /\ InitRefsIdle
    /\ InitWireIdle
    /\ managers = [b \in Backends |-> NewSession]
    /\ acting = "none"
    /\ svc = [op |-> "none", ext |-> "", outcome |-> "none", attempted |-> {}]

NextService ==
    \/ \E b \in Backends :
          \/ MgrStart(b)
          \/ MgrStop(b)
          \/ MgrRequest(b, TRUE)
          \/ MgrRequest(b, FALSE)
          \/ MgrNotify(b)
          \/ MgrWrite(b)
          \/ MgrInbound(b)
          \/ MgrWait(b)
          \/ MgrExit(b)
    \/ \E o \in ServiceOps, ext \in Extensions : ServiceCall(o, ext)

SpecService == InitService /\ [][NextService]_vars

\* ---- MultiLanguageServer.start() and stop() (service.py 44-54) ---------
\* The order in which self.server_managers.items() yields the managers: that
\* of the dict display of service.py 35-40.
ManagerOrder == <<"python", "javascript">>

\* The managers up to and including the i-th of the iteration.
Upto(i) == {ManagerOrder[j] : j \in 1..i}

\* service.py 46-48 from the i-th manager on: manager.start() in turn. The
\* start() of a manager whose Popen fails re-raises (python_server.py
\* 100-102, javascript_server.py 84-86) and the exception leaves the loop.
RECURSIVE StartFrom(_, _, _)
StartFrom(i, m, failing) ==
    IF i > Len(ManagerOrder)
    THEN [managers |-> m, attempted |-> Upto(i - 1), outcome |-> "returned"]
    ELSE LET b == ManagerOrder[i]
         IN  IF m[b].process # "alive" /\ b \in failing
             THEN [managers |-> m, attempted |-> Upto(i), outcome |-> "raised"]
             ELSE StartFrom(i + 1, [m EXCEPT ![b] = Started(m[b])], failing)

\* service.py 52-54: manager.stop() in turn; no statement of stop() raises.
RECURSIVE StopFrom(_, _)
StopFrom(i, m) ==
    IF i > Len(ManagerOrder)
    THEN [managers |-> m, attempted |-> Upto(i - 1), outcome |-> "returned"]
    ELSE StopFrom(i + 1, [m EXCEPT ![ManagerOrder[i]] = Stopped(m[ManagerOrder[i]])])

\* Every manager has an id and room in its queue for one more request.
Room == \A b \in Backends : /\ managers[b].next_request_id <= MaxSvcId
                            /\ Len(managers[b].write_queue) < MaxSvcQueue

\* service.py 44-48, MultiLanguageServer.start(); the launch of the backends
\* in failing fails.
ServiceStart(failing) ==
    /\ Room
    /\ LET r == StartFrom(1, managers, failing)
       IN  /\ managers' = r.managers
           /\ svc' = [op |-> "start", ext |-> "", attempted |-> r.attempted,
                      outcome |-> r.outcome]
           /\ acting' = ManagerOrder[Cardinality(r.attempted)]
    /\ UNCHANGED <<sessVars, fmtVars, message, wireVars, isfile, refVars>>

\* service.py 50-54, MultiLanguageServer.stop().
ServiceStop ==
    /\ Room
    /\ LET r == StopFrom(1, managers)
       IN  /\ managers' = r.managers
           /\ svc' = [op |-> "stop", ext |-> "", attempted |-> r.attempted,
                      outcome |-> r.outcome]
           /\ acting' = ManagerOrder[Cardinality(r.attempted)]
    /\ UNCHANGED <<sessVars, fmtVars, message, wireVars, isfile, refVars>>

\* The service started and stopped as a whole, the writers and the backends
\* of its managers running in between.
NextServiceLife ==
    \/ \E failing \in SUBSET Backends : ServiceStart(failing)
    \/ ServiceStop
    \/ \E b \in Backends :
          \/ MgrWrite(b)
          \/ MgrInbound(b)
          \/ MgrWait(b)
          \/ MgrExit(b)

SpecServiceLife == InitService /\ [][NextServiceLife]_vars

(***************************************************************************)
(* run_linter and run_formatter from their call to the first wait, on a    *)
(* session whose backend may have exited.                                  *)
(***************************************************************************)
\* A check that takes every path for a file.
PathAlwaysFile == TRUE

\* python_server.py 145 and 231, javascript_server.py 130: os.path.isfile(file_path)
PathIsFile == isfile

\* python_server.py 145-152 and 231-238: ValueError for a path that is no
\* file; then "if not self.is_running(): self.start()".
DocCall(t, o) ==
    /\ pc[t] = "idle"
    /\ calls[t] < MaxOps
    /\ calls' = [calls EXCEPT ![t] = calls[t] + 1]
    /\ op' = [op EXCEPT ![t] = o]
    /\ IF ~PathIsFile
       THEN /\ pc' = [pc EXCEPT ![t] = "ValueError"]
            /\ NoLaunch
       ELSE IF is_running
       THEN /\ pc' = [pc EXCEPT ![t] = "request"]
            /\ NoLaunch
       ELSE /\ Len(poll) < MaxProcs
            /\ next_request_id <= MaxId
            /\ \/ /\ pc' = [pc EXCEPT ![t] = "raised"]
                  /\ NoLaunch
               \/ /\ pc' = [pc EXCEPT ![t] = "wait"]
                  /\ Launch(t)
    /\ UNCHANGED <<loaded, ret, stoppedAtCall, restVars>>
    /\ UNCHANGED <<timedOut, asyncCalls, cbCalls, dispatched>>

\* python_server.py 159-220: run_linter reads the file, queues didOpen, runs
\* the linter subprocess and returns its result. python_server.py 240-270:
\* run_formatter reads the file, queues didOpen and sends the formatting
\* request, whose response it waits for.
DocOpen(t) ==
    /\ pc[t] = "request"
    /\ op[t] \in DocOps
    /\ IF op[t] = "run_linter"
       THEN /\ write_queue' = Put(write_queue, Notification("textDocument/didOpen"))
            /\ pc' = [pc EXCEPT ![t] = "done"]
            /\ UNCHANGED <<next_request_id, request_id, allocated, op>>
       ELSE /\ next_request_id <= MaxId
            /\ write_queue' = write_queue \o
                   <<Notification("textDocument/didOpen"),
                     Request(next_request_id, "textDocument/formatting")>>
            /\ request_id' = [request_id EXCEPT ![t] = next_request_id]
            /\ allocated' = allocated \cup {next_request_id}
            /\ next_request_id' = next_request_id + 1
            /\ op' = [op EXCEPT ![t] = "sync"]
            /\ pc' = [pc EXCEPT ![t] = "wait"]
    /\ UNCHANGED <<server_process, running, request_callbacks, response_queue,
                   reader_thread, writer_thread>>
    /\ UNCHANGED <<procVars, threadVars, restVars>>
    /\ UNCHANGED <<loaded, ret, stoppedAtCall, calls>>
    /\ UNCHANGED <<timedOut, asyncCalls, cbCalls, dispatched>>

\* The ValueError has reached the caller.
DocRaised(t) ==
    /\ pc[t] = "ValueError"
    /\ pc' = [pc EXCEPT ![t] = "idle"]
    /\ op' = [op EXCEPT ![t] = "none"]
    /\ UNCHANGED <<fieldVars, procVars, threadVars, histVars, restVars>>
    /\ UNCHANGED <<request_id, loaded, ret, stoppedAtCall, calls>>

\* A started session, and a path that names a file or does not.
InitDoc ==
    /\ InitReady
    /\ InitFmtIdle
    /\ message = <<>>
    /\ InitWireIdle
    /\ InitServiceIdle
    /\ isfile \in BOOLEAN
    /\ InitRefsIdle

NextDoc ==
    \/ \E o \in DocOps : DocCall("main", o)
    \/ DocRaised("main")
    \/ InitializeResult("main")
    \/ DocOpen("main")
    \/ Wait("main")
    \/ Return("main")
    \/ ThreadStep
    \/ \E p \in DOMAIN poll : BackendRespond(p) \/ BackendExit(p)

SpecDoc == InitDoc /\ [][NextDoc]_vars

(***************************************************************************)
(* get_references (base.py 467-514): from the response of                  *)
(* _send_request_sync to the list returned.                                *)
(***************************************************************************)
MaxLocations == 3

\* A URI is its scheme prefix and the rest; "" for a missing "uri" key.
Uris == {<<"file://", "/w/a.py">>, <<"untitled:", "b">>, <<"">>}
Ranges == {"0:0-0:1", "{}"}
Locations == [uri : Uris, range : Ranges]
LocationLists == UNION {[1..n -> Locations] : n \in 0..MaxLocations}

\* What _send_request_sync hands to get_references: {} after a timeout (a
\* response without "result" never reaches response_queue, base.py 205), a
\* response whose result is null, or one whose result is a list of locations.
RefResponses ==
    {[kind |-> "timeout", locations |-> <<>>], [kind |-> "null", locations |-> <<>>]}
        \cup {[kind |-> "list", locations |-> l] : l \in LocationLists}

\* base.py 391-393, _uri_to_path: the prefix "file://" removed, any other
\* string unchanged.
UriToPath(uri) == IF uri[1] = "file://" THEN Tail(uri) ELSE uri

\* base.py 505-512: one {path, range} entry per element of result.
Convert(result) ==
    [i \in DOMAIN result |-> [path |-> UriToPath(result[i].uri), range |-> result[i].range]]

\* base.py 502: response.get("result", []): the value under "result", None
\* included, and [] only when the key is absent.
ResultOf(resp) ==
    CASE resp.kind = "list" -> [none |-> FALSE, items |-> resp.locations]
      [] resp.kind = "null" -> [none |-> TRUE, items |-> <<>>]
      [] OTHER -> [none |-> FALSE, items |-> <<>>]

\* base.py 499-514: "for reference in result" raises TypeError on None.
GetReferences ==
    /\ references = NoReferences
    /\ references' = IF ResultOf(refResponse).none
                     THEN [state |-> "TypeError", value |-> <<>>]
                     ELSE [state |-> "returned", value |-> Convert(ResultOf(refResponse).items)]
    /\ UNCHANGED <<refResponse, sessVars, fmtVars, message, wireVars, serviceVars, isfile>>

InitRefs ==
    /\ InitReady
    /\ InitFmtIdle
    /\ InitWriterIdle
    /\ InitDocIdle
    /\ InitWireIdle
    /\ InitServiceIdle
    /\ refResponse \in RefResponses
    /\ references = NoReferences

NextRefs == GetReferences

SpecRefs == InitRefs /\ [][NextRefs]_vars

(***************************************************************************)
(* Correlation of requests and responses.                                  *)
(***************************************************************************)
\* C1: every _send_request_sync call that returns a response returns the one
\* whose id is the id of the request it enqueued, however many calls are
\* outstanding and in whatever order the backend answers (no call timed out).
C1_SyncReturnsOwnResponse ==
    timedOut = {}
    => \A t \in Threads :
          (op[t] = "sync" /\ pc[t] = "done" /\ ret[t] # Empty)
          => ret[t].id = request_id[t]

\* C2: the response to a _send_request_sync call that timed out is discarded
\* when it arrives: it is never queued and no later call returns it.
C2_LateResponseDiscarded ==
    /\ \A i \in DOMAIN response_queue : response_queue[i].id \notin timedOut
    /\ \A t \in Threads : ret[t] # Empty => ret[t].id \notin timedOut

\* C3: the callback of a _send_request_async call is invoked exactly once when
\* a response with its id has been dispatched by the reader, with that id, and
\* never otherwise.
C3_CallbackExactlyOnce ==
    /\ \A j \in DOMAIN cbCalls :
          /\ asyncCalls[cbCalls[j].cb] = cbCalls[j].id
          /\ \A k \in DOMAIN cbCalls : cbCalls[k].cb = cbCalls[j].cb => k = j
    /\ \A c \in DOMAIN asyncCalls :
          asyncCalls[c] \in dispatched <=> \E j \in DOMAIN cbCalls : cbCalls[j].cb = c

\* C4: an id taken by _send_request_sync or _send_request_async differs from
\* every id taken before on the session, and next_request_id never decreases.
C4_IdsUniqueCounterMonotone ==
    [][/\ \A t \in Threads :
             (pc[t] = "read_id" /\ pc'[t] = "inc_load") => request_id'[t] \notin allocated
       /\ next_request_id' >= next_request_id]_vars

\* C10: stop() called on a Stopped session (never started, or stopped before)
\* enqueues nothing, leaves next_request_id and every other field of the
\* session as they were, and returns without waiting for a response.
C10_StopOnStoppedNoOp ==
    [][(pc["main"] = "idle" /\ op'["main"] = "stop" /\ server_process = 0 /\ ~running)
       => (UNCHANGED fieldVars /\ pc'["main"] = "done")]_vars

(***************************************************************************)
(* The life cycle of a session.                                            *)
(***************************************************************************)
\* The backend process of the session exists and has not exited.
BackendAlive == server_process # 0 /\ poll[server_process] = "alive"

\* C11: start() called while the backend runs launches no process, starts no
\* thread, enqueues no message and leaves next_request_id as it was.
C11_StartOnRunningNoOp ==
    [][(pc["main"] = "idle" /\ op'["main"] = "start" /\ BackendAlive)
       => (UNCHANGED <<fieldVars, procVars, threadVars>> /\ pc'["main"] = "done")]_vars

C11_Witness ==
    /\ op["main"] = "start" /\ pc["main"] = "done" /\ request_id["main"] = 0
    /\ BackendAlive /\ Len(poll) = 1 /\ next_request_id = 2

StopReturned == op["main"] = "stop" /\ pc["main"] = "done"

\* C12: a stop() that has begun returns, whether or not the backend answers
\* shutdown and whatever the reader does; when it has returned every backend
\* process of the session has exited and is_running() is false.
C12_StopReturns ==
    /\ (op["main"] = "stop" /\ pc["main"] = "wait") ~> StopReturned
    /\ [](StopReturned => (~BackendAlive /\ \A p \in DOMAIN poll : poll[p] = "exited"))

\* stop() has returned on a started session whose backend never answered
\* shutdown and whose reader was left in readline.
C12_Witness ==
    /\ StopReturned
    /\ Len(poll) = 1 /\ poll[1] = "exited" /\ server_process = 0
    /\ timedOut = {2} /\ answered[1] = {1}
    /\ readerPc[1] = "read"

\* C13: when stop() has returned after the backend's answer to its shutdown
\* request, the shutdown request and then the exit notification have been
\* written to the backend.
C13_ShutdownThenExitWritten ==
    (StopReturned /\ HasResultKey(ret["main"]) /\ ret["main"].id = request_id["main"])
    => \E p \in DOMAIN stdin : \E i, j \in DOMAIN stdin[p] :
          /\ i < j
          /\ stdin[p][i] = Request(request_id["main"], "shutdown")
          /\ stdin[p][j] = Notification("exit")

\* The session is Ready: its process is alive, both of its loops run, and the
\* handshake of this process was acknowledged ("initialized" was sent on).
Ready ==
    /\ BackendAlive
    /\ running
    /\ reader_thread # 0 /\ readerPc[reader_thread] # "dead"
    /\ writer_thread # 0 /\ writerPc[writer_thread] # "dead"
    /\ \/ \E i \in DOMAIN write_queue : write_queue[i] = Notification("initialized")
       \/ \E i \in DOMAIN stdin[server_process] :
             stdin[server_process][i] = Notification("initialized")

\* C14: get_definition / get_references enqueue their request only when the
\* session is Ready.
C14_RequestOnlyWhenReady ==
    [][(pc["main"] = "request" /\ pc'["main"] = "wait") => Ready]_vars

\* C15: a start() whose launch of the backend process fails raises to its
\* caller and leaves the session as it was: no process, no thread, no message
\* enqueued, and is_running() false.
C15_LaunchFailureLeavesStopped ==
    [][(pc["main"] = "idle" /\ op'["main"] = "start" /\ ~BackendAlive
          /\ Len(poll') = Len(poll))
       => /\ pc'["main"] = "raised"
          /\ UNCHANGED <<fieldVars, procVars, threadVars>>
          /\ ~BackendAlive']_vars

\* start() has raised on a session that was never started.
C15_Witness ==
    /\ op["main"] = "start" /\ pc["main"] = "raised"
    /\ server_process = 0 /\ ~running /\ poll = <<>> /\ readerPc = <<>> /\ writerPc = <<>>
    /\ write_queue = <<>> /\ next_request_id = 1

\* C16: a launch enqueues the initialize request; when the handshake's wait
\* is over, "initialized" followed by workspace/didChangeConfiguration is
\* enqueued if a response to the initialize request with a result was
\* received, and no "initialized" otherwise.
C16_InitializedAfterResult ==
    [][/\ Len(poll') > Len(poll)
          => write_queue' = Append(write_queue, Request(next_request_id, "initialize"))
       /\ (pc["main"] = "result" /\ op["main"] # "stop" /\ pc'["main"] # "result")
          => write_queue' =
                IF ret["main"] = Response(request_id["main"], "result")
                THEN write_queue \o <<Notification("initialized"),
                                      Notification("workspace/didChangeConfiguration"),
                                      Notification("workspace/didChangeConfiguration")>>
                ELSE Append(write_queue, Notification("workspace/didChangeConfiguration"))]_vars

\* The initialize request sent to the session's current process timed out.
HandshakeTimedOut ==
    /\ server_process # 0
    /\ \E id \in timedOut :
          \/ \E i \in DOMAIN stdin[server_process] :
                stdin[server_process][i] = Request(id, "initialize")
          \/ \E i \in DOMAIN write_queue : write_queue[i] = Request(id, "initialize")

\* C17: a start() whose handshake got no result returns without raising and
\* leaves the process, the running flag and both threads as they are; a later
\* get_definition / get_references on that session goes on to issue its
\* request without raising or relaunching.
C17_DegradedMode ==
    [][/\ (pc["main"] = "result" /\ op["main"] = "start" /\ ~HasResultKey(ret["main"])
             /\ pc'["main"] # "result")
          => /\ pc'["main"] = "done"
             /\ UNCHANGED <<server_process, running, reader_thread, writer_thread,
                            procVars, threadVars>>
       /\ (pc["main"] = "idle" /\ op'["main"] \in Implementations /\ BackendAlive
             /\ HandshakeTimedOut)
          => /\ pc'["main"] = "request"
             /\ UNCHANGED <<fieldVars, procVars, threadVars>>]_vars

\* After a handshake that timed out, a request was enqueued on the same
\* process with both loops alive.
C17_Witness ==
    /\ op["main"] = "sync" /\ pc["main"] = "wait" /\ request_id["main"] = 2
    /\ timedOut = {1} /\ Len(poll) = 1 /\ BackendAlive /\ running
    /\ readerPc[1] # "dead" /\ writerPc[1] # "dead"

\* C18: get_definition and get_references, in the base implementation and
\* in the Python manager's overrides, never raise: with the backend
\* unavailable or silent they return an empty result.
C18_RequestsNeverRaise ==
    \A t \in Threads : pc[t] = "raised" => op[t] \notin Implementations

(***************************************************************************)
(* The reader and the transport.                                           *)
(***************************************************************************)
\* C19: a malformed frame does not end the reader: the reader that reads it
\* goes on with its loop.
C19_MalformedFrameKeepsReader ==
    [][\A g \in DOMAIN readerPc :
          (readerPc[g] = "read" /\ stdout[readerProc[g]] # <<>>
             /\ Head(stdout[readerProc[g]]) = Malformed)
          => readerPc'[g] # "dead"]_vars

\* C20: once the session's backend process has exited or closed its stdout,
\* no reader stays reading from it and is_running() becomes false for it.
C20_TransportLossStopsSession ==
    \A p \in 1..MaxProcs :
       (p \in DOMAIN poll /\ server_process = p /\ (poll[p] = "exited" \/ StreamClosed(p)))
       ~> (/\ ~(server_process = p /\ poll[p] = "alive")
           /\ \A g \in DOMAIN readerPc : ~(readerPc[g] = "read" /\ readerProc[g] = p))

\* C35: whenever is_running() is true after start() has returned, the reader
\* loop and the writer loop of the session are alive: no read error or write
\* error leaves a session that reports running with a dead loop.
C35_RunningLoopsAlive ==
    (is_running /\ pc["main"] = "idle") =>
        /\ readerPc[reader_thread] # "dead"
        /\ writerPc[writer_thread] # "dead"

(***************************************************************************)
(* Classification of inbound messages.                                     *)
(***************************************************************************)
\* Reader g takes message msg from the stdout of its process in this step.
ReaderTakes(g, msg) ==
    /\ readerPc[g] = "read"
    /\ readerProc[g] # 0
    /\ stdout[readerProc[g]] # <<>>
    /\ Head(stdout[readerProc[g]]) = msg
    /\ stdout'[readerProc[g]] = Tail(stdout[readerProc[g]])

ErrorResponses == {Response(i, "error") : i \in 1..(MaxId + 2)}
ResultResponses == {Response(i, "result") : i \in 1..(MaxId + 2)}

\* C23: an inbound message with an id and an error completes the request of
\* that id: the callback registered for the id is invoked, or the response
\* is handed to the waiting sync caller.
C23_ErrorResponseCompletes ==
    [][\A g \in DOMAIN readerPc : \A msg \in ErrorResponses :
          ReaderTakes(g, msg) =>
              IF msg.id \in DOMAIN request_callbacks
              THEN cbCalls' = Append(cbCalls, [cb |-> request_callbacks[msg.id], id |-> msg.id])
              ELSE response_queue' = Put(response_queue, msg)]_vars

\* The request of this id is not outstanding: the id was never allocated, or
\* its request has completed (by a timeout or by a response).
NotOutstanding(id) == id \notin allocated \/ id \in timedOut \/ id \in dispatched

\* C24: a response whose id matches no outstanding request is discarded:
\* processing it invokes no callback and leaves request_callbacks and
\* response_queue unchanged.
C24_UnmatchedResponseDiscarded ==
    [][\A g \in DOMAIN readerPc : \A msg \in ResultResponses :
          (ReaderTakes(g, msg) /\ NotOutstanding(msg.id))
              => UNCHANGED <<request_callbacks, response_queue, cbCalls>>]_vars

(***************************************************************************)
(* The service: routing and the independence of the sessions.              *)
(***************************************************************************)
\* The routed operation has either raised ValueError or gone to a manager.
Routed(ext) ==
    CASE Lower(ext) = ".py" -> "python"
      [] Lower(ext) \in {".js", ".ts", ".jsx", ".tsx"} -> "javascript"
      [] OTHER -> "ValueError"

\* C25: get_server_for_file gives the Python manager for .py, the JavaScript
\* manager for .js, .ts, .jsx and .tsx (case-insensitively) and None for any
\* other extension, so that the four routed operations raise ValueError for
\* such a file and otherwise go to the selected manager.
C25_RoutingByExtension ==
    svc.op # "none" => svc.outcome = Routed(svc.ext)

\* C26: no operation on the session of one backend changes any state of the
\* session of another backend.
C26_SessionsIndependent ==
    [][\A b \in Backends : b # acting' => managers'[b] = managers[b]]_vars

C26_Witness ==
    /\ acting = "javascript"
    /\ managers["javascript"].process = "alive"
    /\ managers["javascript"].write_queue # <<>>
    /\ managers["python"].process = "exited"
    /\ managers["python"].next_request_id > 1

\* C38: MultiLanguageServer.start() attempts start() on every configured
\* backend and MultiLanguageServer.stop() attempts stop() on every one, also
\* when that of an earlier backend raises; after stop() no backend process
\* of the service is left running.
C38_EveryBackendAttempted ==
    /\ svc.op \in {"start", "stop"} => svc.attempted = Backends
    /\ svc.op = "stop" => \A b \in Backends : managers[b].process # "alive"

(***************************************************************************)
(* Operations on a document.                                               *)
(***************************************************************************)
\* C32: run_linter and run_formatter called with a path that is no existing
\* file raise ValueError before any backend interaction: the backend is not
\* started, no message is enqueued and the id counter is unchanged.
C32_MissingFileRaisesFirst ==
    [][(pc["main"] = "idle" /\ op'["main"] \in DocOps /\ ~isfile)
          => /\ pc'["main"] = "ValueError"
             /\ UNCHANGED <<fieldVars, procVars, threadVars, allocated>>]_vars

C32_Witness ==
    /\ pc["main"] = "ValueError"
    /\ op["main"] \in DocOps
    /\ ~isfile
    /\ ~is_running
    /\ Len(poll) = 1
    /\ next_request_id = 2

\* The number of notifications of this method queued for the backend or
\* written to it.
Notified(method) ==
    Len(SelectSeq(write_queue, LAMBDA m : m = Notification(method)))
        + Len(SelectSeq(stdin[server_process], LAMBDA m : m = Notification(method)))

\* C37: every textDocument/didOpen that run_formatter (or run_linter)
\* enqueues for a document is followed, before the operation returns, by a
\* textDocument/didClose for it, on every path.
C37_OpenedDocumentClosed ==
    fpc = "returned" => Notified("textDocument/didClose") = Notified("textDocument/didOpen")

\* C33: get_references returns one {path, range} entry per location of the
\* response, and the empty list when the response has no locations: after a
\* timeout, for a response without result, and for a result that is null.
C33_ReferencesListed ==
    references # NoReferences =>
        /\ references.state = "returned"
        /\ Len(references.value) = Len(refResponse.locations)
        /\ \A i \in DOMAIN references.value :
              /\ references.value[i].range = refResponse.locations[i].range
              /\ references.value[i].path =
                     IF refResponse.locations[i].uri[1] = "file://"
                     THEN <<refResponse.locations[i].uri[2]>>
                     ELSE refResponse.locations[i].uri

(***************************************************************************)
(* A session stopped and started again.                                    *)
(***************************************************************************)
\* start() launches a backend after an earlier one.
Relaunch == server_process' # server_process /\ server_process' > 1

\* C34: after stop() followed by start() the new lifetime starts clean: the
\* first message written to the new backend is the initialize request, no
\* request of the previous lifetime is written to it, and response_queue
\* holds no response of the previous lifetime when the backend is launched.
C34_RestartStartsClean ==
    /\ [](\A p \in DOMAIN stdin :
             (p > 1 /\ stdin[p] # <<>>) =>
                 /\ stdin[p][1].method = "initialize"
                 /\ \A i \in DOMAIN stdin[p] :
                       stdin[p][i].id = 0 \/ stdin[p][i].id >= stdin[p][1].id)
    /\ [][Relaunch => response_queue' = <<>>]_vars

\* C36: a session has at most one reader loop and one writer loop on the
\* pipes of its current backend, also after a stop() whose joins timed out
\* and a start(): only the loops of the current lifetime read from or write
\* to the current process.
C36_OneLoopPerBackend ==
    [][/\ \A g \in DOMAIN writerPc :
             (writerPc'[g] # writerPc[g] /\ stdin' # stdin) => g = writer_thread
       /\ \A g \in DOMAIN readerPc :
             (readerPc'[g] # readerPc[g] /\ stdout' # stdout
                  /\ readerProc[g] = server_process) => g = reader_thread]_vars

(***************************************************************************)
(* The order of the messages written.                                      *)
(***************************************************************************)
\* C28: while the session is Ready the writer transmits the enqueued
\* messages one at a time, in the order they were enqueued: a message is
\* taken from write_queue only when every message taken before it has been
\* written and flushed.
C28_WrittenOneAtATime ==
    [][\A g \in DOMAIN writerPc :
          (Ready /\ writerPc[g] = "get" /\ writerPc'[g] = "write")
              => \A h \in DOMAIN writerPc : writerPc[h] # "write"]_vars

\* C31: an inbound message with a method and an id is dropped: it invokes
\* no callback, is not put in response_queue, is not handed to the
\* notification handler, and no reply is enqueued.
C31_ServerRequestDropped ==
    [][(decoded' # decoded /\ decoded'[Len(decoded')].method # ""
            /\ decoded'[Len(decoded')].id # 0)
          => UNCHANGED <<request_callbacks, cbCalls, response_queue, write_queue, logged>>]_vars

C31_Witness ==
    /\ decoded # <<>>
    /\ decoded[Len(decoded)] = ServerRequest
    /\ ServerRequest.id \in DOMAIN request_callbacks
    /\ rpc = "readline"

(***************************************************************************)
(* Framing: the bytes between the session and its backend.                 *)
(***************************************************************************)
\* The messages of the frames on the pipe, in the order they were written.
Messages(frames) == [i \in DOMAIN frames |-> frames[i].msg]

\* The reader has come to the end of the stream or has left its loop.
ReaderDone == rpc \in {"eof", "dead"}

\* Every frame on the pipe is one the session's writer builds: a request or
\* a notification under "Content-Length: N" and one blank line.
WriterFramed ==
    \A i \in DOMAIN sent :
        /\ sent[i].msg \in ClientMessages
        /\ sent[i].style = "CL"
        /\ sent[i].blanks = 0

\* C21: every message the writer frames (a request or a notification, with
\* empty params or with non-ASCII text) is decoded by the reader's framing
\* logic back into the same message, whatever the reader's backend, and the
\* Content-Length the writer declares is the byte length of the body.
C21_FramingRoundTrip ==
    /\ \A m \in ClientMessages :
          /\ Frame(m)[2] = ToString(Len(Dumps(m)))
          /\ Decodes(Dumps(m)) /\ Loads(Dumps(m)) = m
    /\ (ReaderDone /\ WriterFramed /\ ~shortRead) => decoded = Messages(sent)

\* C22: the header block ends at the first blank line, whatever number of
\* header lines precede it, so that the bytes the reader takes as the body
\* start at the body of a frame, for every backend.
C22_BodyStartsAfterBlankLine ==
    rpc = "read" =>
        \E i \in DOMAIN sent : wire = Dumps(sent[i].msg) \o BytesFrom(sent, i + 1)

\* The header blocks the reader of a language passes over correctly: those of
\* two lines after Content-Length for python, those of one line for the others.
Matches(lang, style) ==
    IF lang = "python" THEN style = "CL+CT" ELSE style \in {"CL", "CT+CL"}

Matched == \A i \in DOMAIN sent : Matches(language, sent[i].style)

\* C29: the reader has consumed exactly content_length bytes as the body
\* when it decodes, also when a read of the pipe returns fewer bytes.
C29_BodyReadInFull ==
    (rpc = "loads" /\ Matched) => Len(read_content) = content_length

\* C30: an empty line where a header line is expected is skipped: it gives
\* no message, no error and no change of state, and the frames after it are
\* decoded.
C30_EmptyLineSkipped ==
    /\ [][(rpc = "readline" /\ wire # <<>> /\ Head(wire) = EOL /\ wire' # wire)
            => /\ rpc' = "readline"
               /\ wire' = Tail(wire)
               /\ UNCHANGED <<content_length, read_content, decoded, logged, sessVars>>]_vars
    /\ [](ReaderDone /\ Matched /\ ~shortRead => rpc = "eof" /\ decoded = Messages(sent))

C30_Witness ==
    /\ rpc = "eof"
    /\ \E i \in DOMAIN sent : sent[i].blanks > 0
    /\ decoded = Messages(sent)

\* The level the specification gives for a severity.
SeverityLevel(type) ==
    CASE type = 1 -> "ERROR"
      [] type = 2 -> "WARNING"
      [] type = 3 -> "INFO"
      [] type = 4 -> "DEBUG"
      [] OTHER -> "INFO"

LogMessages(msgs) ==
    SelectSeq(msgs, LAMBDA m : m.method = "window/logMessage" /\ m.id = 0)

\* C27: a window/logMessage of severity 1 is logged as error, 2 as warning, 3
\* as info, 4 as debug and any other severity as info; handling a
\* notification changes none of request_callbacks, response_queue and
\* write_queue.
C27_LogSeverity ==
    /\ [](/\ Len(logged) = Len(LogMessages(decoded))
          /\ \A i \in DOMAIN logged :
                /\ logged[i].type = LogMessages(decoded)[i].type
                /\ logged[i].type # 0 => logged[i].level = SeverityLevel(logged[i].type))
    /\ [][(decoded' # decoded /\ decoded'[Len(decoded')].method # ""
              /\ decoded'[Len(decoded')].id = 0)
            => UNCHANGED <<request_callbacks, response_queue, write_queue>>]_vars

C27_Witness ==
    /\ \E i \in DOMAIN logged : logged[i].type = 5 /\ logged[i].level = "INFO"
    /\ \E i \in DOMAIN logged : logged[i].type = 4 /\ logged[i].level = "DEBUG"

(***************************************************************************)
(* Edit application: what the claims compare the code's result with.       *)
(***************************************************************************)
\* A position inside the text: an existing line and a character up to its end
\* (terminator excluded), or line = number of lines, character 0, when the
\* text is empty or ends with a terminator.
InRange(text, pos) ==
    LET lines == SplitLines(text)
    IN  \/ /\ pos.line < Len(lines)
           /\ pos.character <= Len(lines[pos.line + 1])
                                 - (IF lines[pos.line + 1][Len(lines[pos.line + 1])] = NL
                                    THEN 1 ELSE 0)
        \/ /\ pos.line = Len(lines)
           /\ pos.character = 0
           /\ (text = <<>> \/ text[Len(text)] = NL)

\* Edits with in-range coordinates, pairwise non-overlapping and with distinct
\* start positions (so that "reverse position order" names one order).
WellFormed(text, edits) ==
    /\ \A i \in 1..Len(edits) :
          /\ InRange(text, edits[i].start)
          /\ InRange(text, edits[i].end)
          /\ PosLeq(edits[i].start, edits[i].end)
    /\ \A i, j \in 1..Len(edits) :
          i # j => \/ PosLess(edits[i].start, edits[j].start) /\ PosLeq(edits[i].end, edits[j].start)
                   \/ PosLess(edits[j].start, edits[i].start) /\ PosLeq(edits[j].end, edits[i].start)

\* The edits by descending start position (line, then character).
RECURSIVE ReversePositionOrder(_)
ReversePositionOrder(edits) ==
    IF edits = <<>> THEN <<>>
    ELSE LET last == CHOOSE i \in 1..Len(edits) :
                         \A j \in 1..Len(edits) : PosLeq(edits[j].start, edits[i].start)
             rest == [k \in 1..(Len(edits) - 1) |-> IF k < last THEN edits[k] ELSE edits[k + 1]]
         IN  <<edits[last]>> \o ReversePositionOrder(rest)

\* The original text with each [start, end) range, read in the coordinates of
\* the original snapshot, replaced by its newText.
RECURSIVE ReplaceFrom(_, _, _)
ReplaceFrom(text, descending, upto) ==
    IF descending = <<>> THEN SubSeq(text, 1, upto)
    ELSE LET lines == SplitLines(text)
             e == Head(descending)
             so == Offset(lines, e.start)
             eo == Offset(lines, e.end)
         IN  ReplaceFrom(text, Tail(descending), so) \o e.newText \o SubSeq(text, eo + 1, upto)

Replaced(text, edits) == ReplaceFrom(text, ReversePositionOrder(edits), Len(text))

\* The end of the document: the end of the last line, or line = number of
\* lines, character 0, when the text ends with a terminator (or is empty).
EndOfDocument(text) ==
    LET lines == SplitLines(text)
    IN  IF text = <<>> \/ text[Len(text)] = NL
        THEN Pos(Len(lines), 0)
        ELSE Pos(Len(lines) - 1, Len(lines[Len(lines)]))

EditsApplied == fpc = "returned" /\ fmtPath = "edits"
EditsListed == response.kind = "list" /\ response.edits # <<>>

\* C5: for two non-overlapping edits, the text the edit application returns is
\* the same for both orders of listing the edits, and is the text obtained by
\* applying them in strictly reverse position order (same-line edits included).
C5_OrderIndependent ==
    (fpc = "returned" /\ response.kind = "list" /\ Len(response.edits) = 2
        /\ WellFormed(content, response.edits))
    => LET e1 == response.edits[1]
           e2 == response.edits[2]
           reverse == ApplyInOrder(content, ReversePositionOrder(response.edits))
       IN  /\ EditsApplied
           /\ ApplyEdits(content, <<e2, e1>>) = [raised |-> FALSE, text |-> returned]
           /\ reverse = [raised |-> FALSE, text |-> returned]

\* C6: for a non-empty list of pairwise non-overlapping in-range edits, the
\* edit application returns the original text with each [start, end) range of
\* the original snapshot replaced by its newText.
C6_RangesReplaced ==
    (fpc = "returned" /\ EditsListed /\ WellFormed(content, response.edits))
    => (EditsApplied /\ returned = Replaced(content, response.edits))

\* C7 as stated: when the backend answers with an empty list of edits, the
\* formatting operation produces the document's original content.
C7_EmptyListIdentity ==
    (fpc = "returned" /\ response.kind = "list" /\ response.edits = <<>>)
    => returned = content

\* C7 amended: on an empty list of edits no edit is applied; the fallback
\* formatter runs, and run_formatter returns its output when it exits 0 and
\* the document's original content otherwise.
C7_EmptyListFallsBack ==
    (fpc = "returned" /\ response.kind = "list" /\ response.edits = <<>>)
    => /\ fmtPath = "noedits"
       /\ new_content = NoText
       /\ fallback.outcome # "none"
       /\ returned = IF fallback.outcome = "ok" THEN fallback.stdout ELSE content

C7_Witness ==
    /\ fpc = "returned" /\ response.kind = "list" /\ response.edits = <<>>
    /\ fallback.outcome = "ok" /\ returned = Formatted /\ content # <<>>

\* C8: a single edit whose range spans the whole document, with newText = X,
\* makes the edit application return exactly X.
C8_WholeDocumentEdit ==
    (fpc = "returned" /\ response.kind = "list" /\ Len(response.edits) = 1
        /\ response.edits[1].start = Pos(0, 0)
        /\ response.edits[1].end = EndOfDocument(content))
    => (EditsApplied /\ returned = response.edits[1].newText)

C8_Witness ==
    /\ fpc = "returned" /\ response.kind = "list" /\ Len(response.edits) = 1
    /\ response.edits[1].start = Pos(0, 0)
    /\ response.edits[1].end = EndOfDocument(content)
    /\ Len(SplitLines(content)) >= 2
    /\ returned = <<"x", NL>>

\* C9: when the protocol path yields no usable edits (timeout, no usable
\* result, an exception while applying edits) and the fallback formatter fails
\* too, run_formatter returns exactly the content it read; and it never raises
\* once the file was read.
C9_FailureReturnsContent ==
    /\ fallback.outcome \in {"nonzero", "exception"}
          => (fpc = "returned" /\ returned = content)
    /\ fpc = "raised" => (response = NoResponse /\ write_queue = <<>>)

C9_Witness ==
    /\ fpc = "returned" /\ fmtPath = "exception" /\ response.kind = "list"
    /\ new_content # content
    /\ fallback.outcome = "nonzero" /\ returned = content

====
